---- MODULE Spec2Model ----
(***************************************************************************)
(* TTRPG-Generators: the generation loop (Generator.generate), the item    *)
(* classes it filters and renders (Creation, Name), the header resolver    *)
(* (LinkedGenerator._substitute_headers), the table files                  *)
(* (_text_file_to_dict, _update, _update_tables, _get_tables),             *)
(* _get_other_generator_output and the production methods of               *)
(* MysticOrders, Dwarves and Plant, modelled from src/src.                 *)
(*                                                                         *)
(* Each part has its own specification and keeps the variables of the      *)
(* other parts fixed: Spec and FairSpec (generate), ResolveSpec and        *)
(* ResolveFairSpec (the resolver), LinkedSpec (generate on a generator     *)
(* that resolves templates), TableSpec (the table files over the runs of   *)
(* the program), ProcessSpec (one run with cross-generator invocations),   *)
(* RenderSpec (str, len and the substring test on Creations that hold      *)
(* Creations), MysticSpec and MysticFairSpec (MysticOrders._generator),    *)
(* DwarfSpec (Dwarves._generator) and PlantSpec (Plant._generator).        *)
(*                                                                         *)
(* Text is a sequence of one-character strings, so that str.lower(),       *)
(* Creation._capitalize, the substring test and the header regular         *)
(* expression are computed character by character as the code does.        *)
(***************************************************************************)
EXTENDS Integers, Sequences, FiniteSets, TLC

VARIABLES
    pool,       \* the items self._generator() can return (generator class + tables)
    items,      \* Generator.items
    pc,         \* position inside generate(): idle, plain, head, poll, returned
    count,      \* generate's count argument
    keywords,   \* generate's keywords argument: None or a list of strings
    max_time,   \* generate's max_time argument
    elapsed,    \* time.time() - start, in clock ticks
    tries,      \* number of self._generator() calls made by the running call
                \* (on the keyword path it stops counting at MaxTries)
    unpolled,   \* attempts of the running call not yet followed by a deadline check
    creation,   \* the item the last attempt produced
    expired,    \* a deadline check of the running call saw elapsed > max_time
    late,       \* attempts of the running call started with elapsed > max_time
    before,     \* len(self.items) when the running call started
    tables,     \* LinkedGenerator._tables: category -> list of entries
    special,    \* _special_case_funcs: header text -> what the bound function can return
    text,       \* the entry _substitute_headers is called with by the generator
    stack,      \* the active _substitute_headers calls, outermost first
    rpc,        \* idle, running, done: the outermost _substitute_headers call
    result,     \* what the outermost call returned or raised
    draws,      \* random.choice calls made on tables by the outermost call
    funcs,      \* special-case functions invoked by the outermost call
    seen,       \* the results the calls made so far have returned
    files,      \* the table files of the generator: filename -> lines
    mtime,      \* os.path.getmtime of each table file
    marker,     \* last_runtime.txt: whether it exists, and its getmtime
    now,        \* time.time(), in clock ticks
    tpc,        \* position inside Generator.__init__: idle, updating, loading,
                \* constructed, raised (TypeError), duplicate (Exception)
    todo,       \* the filenames the running _update call has still to rewrite
    rewritten,  \* the files the running construction has rewritten
    store,      \* what _get_tables returned
    force,      \* the force_table_update argument of the running construction
    mtime0,     \* mtime when the running construction started
    marker0,    \* marker when the running construction started
    table_filenames, \* the table_filenames argument of the running construction
    settled,    \* the last _update_tables call wrote the marker at its end and
                \* no table file was modified since
    pending,    \* the table files modified, at a clock value later than the
                \* marker's, since they were last canonicalized
    insts,      \* the generator instances whose generate is running, the one
                \* main constructed first, each invoked one above its caller
    checks,     \* _update_tables calls made by the process (up to MaxChecks)
    resolutions,\* _substitute_headers calls made by the process (up to MaxChecks)
    lateChecks, \* _update_tables calls made after a _substitute_headers call
    handed,     \* the item the last _get_other_generator_output call returned
                \* to the production that is running
    library,    \* GeneratorLibrary().generators_by_type, as the lookups see it
    ppc,        \* the process: start, running, exited, raised (KeyError)
    ents,       \* the Creations a generator holds in self.items, each with the
                \* nested counters of the Creations inside it
    made,       \* the same Creations as their constructors left them
    texts,      \* for each of them, the texts its renderings returned, in order
    out,        \* what the last operation on them returned or printed
    gtables,    \* self._tables of the generator whose _generator is followed
    gpc,        \* position inside that _generator call
    locals,     \* the local variables of the call
    product     \* what the call returned

genVars == <<pool, items, pc, count, keywords, max_time, elapsed, tries,
             unpolled, creation, expired, late, before>>

resVars == <<tables, special, text, stack, rpc, result, draws, funcs, seen>>

tabVars == <<files, mtime, marker, now, tpc, todo, rewritten, store, force,
             mtime0, marker0, table_filenames, settled, pending>>

procVars == <<insts, checks, resolutions, lateChecks, handed, library, ppc>>

entVars == <<ents, made, texts, out>>

prodVars == <<gtables, gpc, locals, product>>

vars == <<genVars, resVars, tabVars, procVars, entVars, prodVars>>

----------------------------------------------------------------------------
(* Bounds of the model *)

MaxCount == 2       \* largest count argument tried
MaxItems == 3       \* generate() is called while self.items can stay this short
MaxTime == 1        \* largest max_time argument tried
MaxTries == 3       \* the attempt counters stop counting here
MaxDepth == 3       \* nested _substitute_headers calls before RecursionError
MaxClock == 2       \* the file system clock is followed this far
MaxChecks == 2      \* the counters of the process stop counting here
MaxNest == 2        \* generators running at once: the caller and the invoked
MaxRenders == 3     \* renderings of one Creation that are followed

----------------------------------------------------------------------------
(* Text: str.lower, str.upper, str.split, str.strip, the `in` operator *)

Lower(c) == CASE c = "A" -> "a" [] c = "B" -> "b" [] c = "O" -> "o"
              [] c = "F" -> "f" [] OTHER -> c

Upper(c) == CASE c = "a" -> "A" [] c = "b" -> "B" [] c = "o" -> "O"
              [] c = "f" -> "F" [] OTHER -> c

LowerStr(s) == [i \in 1..Len(s) |-> Lower(s[i])]

IsSpace(c) == c \in {" ", "\n"}

RECURSIVE SplitAcc(_, _, _)
SplitAcc(s, cur, acc) ==
    IF s = <<>> THEN (IF cur = <<>> THEN acc ELSE Append(acc, cur))
    ELSE IF IsSpace(Head(s))
         THEN SplitAcc(Tail(s), <<>>, IF cur = <<>> THEN acc ELSE Append(acc, cur))
         ELSE SplitAcc(Tail(s), Append(cur, Head(s)), acc)

\* str.split() with no separator: the words between runs of whitespace
Split(s) == SplitAcc(s, <<>>, <<>>)

RECURSIVE LStrip(_)
LStrip(s) == IF s # <<>> /\ IsSpace(Head(s)) THEN LStrip(Tail(s)) ELSE s

RECURSIVE RStrip(_)
RStrip(s) == IF s # <<>> /\ IsSpace(s[Len(s)])
             THEN RStrip(SubSeq(s, 1, Len(s) - 1)) ELSE s

Strip(s) == RStrip(LStrip(s))

\* Python's `k in s` on strings: k occurs in s as a contiguous substring
IsSubstring(k, s) ==
    \E i \in 1..(Len(s) - Len(k) + 1) : SubSeq(s, i, i + Len(k) - 1) = k

----------------------------------------------------------------------------
(* Creation and Name *)

connectors == { <<"t","h","e">>, <<"o","f">>, <<"i","n">>, <<"i","s">> }

\* what new_words[0] raises when words holds whitespace only
IndexError == <<"IndexError">>

RECURSIVE CapWords(_)
CapWords(ws) ==
    IF ws = <<>> THEN <<>>
    ELSE LET word == Head(ws)
         IN (IF word \in connectors
             THEN word \o <<" ">>
             ELSE <<Upper(word[1])>> \o Tail(word) \o <<" ">>)
            \o CapWords(Tail(ws))

\* the last two statements of Creation._capitalize
CapFirst(new_words) ==
    IF new_words = <<>> THEN IndexError
    ELSE Strip(<<Upper(new_words[1])>> \o Tail(new_words))

\* Creation._capitalize (the bound variable holds new_words as a value, so that
\* it is computed once)
Capitalize(words) ==
    IF words = <<>> THEN words
    ELSE CHOOSE r \in { CapFirst(new_words) :
                          new_words \in { CapWords(ws) :
                              ws \in { Split(LowerStr(words)) } } } : TRUE

\* an item: cls is the class, attributes the labelled (label, value) pairs in
\* insertion order, unlabelled_attributes the unlabelled values
MkName(name) ==
    [cls |-> "Name", name |-> name, attributes |-> <<>>,
     unlabelled_attributes |-> <<>>]

MkCreation(name, attributes, unlabelled) ==
    [cls |-> "Creation", name |-> name, attributes |-> attributes,
     unlabelled_attributes |-> unlabelled]

\* Creation._get_attr_display for a text attribute of a top-level item (nested = 0)
AttrDisplay(label, value) ==
    <<"\n", " ", " ">> \o <<"-", " ">> \o label \o <<":", " ">> \o value

\* Creation._get_unlabelled_attr_display, same case
UnlabelledAttrDisplay(value) ==
    <<"\n", " ", " ">> \o <<"-", " ">> \o value

RECURSIVE AttrsDisplay(_)
AttrsDisplay(attrs) ==
    IF attrs = <<>> THEN <<>>
    ELSE AttrDisplay(Head(attrs)[1], Head(attrs)[2]) \o AttrsDisplay(Tail(attrs))

RECURSIVE UnlabelledDisplay(_)
UnlabelledDisplay(vals) ==
    IF vals = <<>> THEN <<>>
    ELSE UnlabelledAttrDisplay(Head(vals)) \o UnlabelledDisplay(Tail(vals))

\* Creation.__repr__ / Name.__repr__: the rendered text str(item)
Str(item) ==
    IF item.cls = "Name" THEN Capitalize(item.name)
    ELSE Capitalize(item.name) \o AttrsDisplay(item.attributes)
         \o UnlabelledDisplay(item.unlabelled_attributes)

\* Name.__contains__
NameContains(self, item) ==
    LET it == LowerStr(item)
        name == LowerStr(self.name)
    IN IsSubstring(it, name) /\ it # name

\* Creation.__contains__
CreationContains(self, item) == IsSubstring(item, Str(self))

\* `keyword in creation`
Contains(self, item) ==
    IF self.cls = "Name" THEN NameContains(self, item)
    ELSE CreationContains(self, item)

\* Name.__eq__
NameEq(self, other) == LowerStr(other.name) = LowerStr(self.name)

\* Creation.__eq__
CreationEq(self, other) ==
    other.name = self.name /\ other.attributes = self.attributes

Eq(self, other) ==
    IF self.cls = "Name" THEN NameEq(self, other) ELSE CreationEq(self, other)

\* `creation in self.items`
InItems(cr, its) == \E i \in 1..Len(its) : Eq(its[i], cr)

----------------------------------------------------------------------------
(* Generator.generate *)

\* the for/else over keywords (lines 170-177): TRUE when the else clause runs
RECURSIVE Accepts(_, _, _)
Accepts(cr, kws, its) ==
    IF kws = <<>> THEN TRUE
    ELSE IF ~Contains(cr, Head(kws)) THEN FALSE
    ELSE IF InItems(cr, its) THEN FALSE
    ELSE Accepts(cr, Tail(kws), its)


\* the keywords argument: None, or a list of strings
NoKeywords == [given |-> FALSE, list |-> <<>>]
KeywordList(l) == [given |-> TRUE, list |-> l]

\* what a generator of Name items can produce
NamePool == { MkName(<<"a","b">>), MkName(<<"A","b">>), MkName(<<"b">>) }

\* what a generator of Creation items can produce
CreationPool ==
    { MkCreation(<<"a","b">>, <<>>, <<>>),
      MkCreation(<<"A","b">>, <<>>, <<>>),
      MkCreation(<<"7">>, <<>>, <<>>),
      MkCreation(<<"b">>, << <<(<<"a">>), (<<"b">>)>> >>, <<>>) }

\* what a generator of Creation items with unlabelled attributes can produce
UnlabelledPool ==
    { MkCreation(<<"b">>, << <<(<<"a">>), (<<"b">>)>> >>, << <<"x">> >>),
      MkCreation(<<"b">>, << <<(<<"a">>), (<<"b">>)>> >>, << <<"y">> >>) }

Pools == { NamePool, CreationPool, UnlabelledPool }

\* the keyword arguments tried (lowercase, as the command line passes them)
KeywordArgs ==
    { NoKeywords,
      KeywordList(<<>>),
      KeywordList(<< <<"b">> >>),
      KeywordList(<< <<"a">>, <<"b">> >>),
      KeywordList(<< <<"7">> >>),
      KeywordList(<< <<"b","b">> >>) }

NoItem == MkName(<<>>)

Bump(n) == IF n < MaxTries THEN n + 1 ELSE n

\* Generator.__init__: self.items = []
GenInit ==
    /\ pool \in Pools
    /\ items = <<>>
    /\ pc = "idle"
    /\ count = 0
    /\ keywords = NoKeywords
    /\ max_time = 0
    /\ elapsed = 0
    /\ tries = 0
    /\ unpolled = 0
    /\ creation = NoItem
    /\ expired = FALSE
    /\ late = 0
    /\ before = 0

\* generate(count, keywords, max_time) is called: start = time.time(), tries = 0
Generate(c, kw, mt) ==
    /\ pc = "idle"
    /\ Len(items) + c <= MaxItems
    /\ count' = c
    /\ keywords' = kw
    /\ max_time' = mt
    /\ elapsed' = 0
    /\ tries' = 0
    /\ unpolled' = 0
    /\ creation' = NoItem
    /\ expired' = FALSE
    /\ late' = 0
    /\ before' = Len(items)
    /\ pc' = IF kw.given THEN "head" ELSE "plain"
    /\ UNCHANGED <<pool, items>>

\* PlainAppend with the keyword path's duplicate check applied to it
PlainAppendNoDuplicates ==
    /\ pc = "plain"
    /\ tries < count
    /\ \E c \in pool :
          /\ items' = IF InItems(c, items) THEN items ELSE Append(items, c)
          /\ creation' = c
    /\ tries' = tries + 1
    /\ UNCHANGED <<pool, pc, count, keywords, max_time, elapsed, unpolled,
                   expired, late, before>>

\* one pass of `for _ in range(count): self.items.append(self._generator())`
PlainAppend ==
    /\ pc = "plain"
    /\ tries < count
    /\ \E c \in pool :
          /\ items' = Append(items, c)
          /\ creation' = c
    /\ tries' = tries + 1
    /\ UNCHANGED <<pool, pc, count, keywords, max_time, elapsed, unpolled,
                   expired, late, before>>

\* range(count) is exhausted: return self.items
PlainReturn ==
    /\ pc = "plain"
    /\ tries >= count
    /\ pc' = "returned"
    /\ UNCHANGED <<pool, items, count, keywords, max_time, elapsed, tries,
                   unpolled, creation, expired, late, before>>

\* Attempt with the while condition written `len(self.items) <= count`
AttemptOffByOne ==
    /\ pc = "head"
    /\ Len(items) <= count
    /\ \E c \in pool :
          /\ creation' = c
          /\ items' = IF Accepts(c, keywords.list, items)
                      THEN Append(items, c) ELSE items
    /\ tries' = Bump(tries)
    /\ unpolled' = unpolled + 1
    /\ late' = IF elapsed > max_time THEN Bump(late) ELSE late
    /\ pc' = "poll"
    /\ UNCHANGED <<pool, count, keywords, max_time, elapsed, expired, before>>

\* one pass of the while body up to the deadline check (lines 167-177)
Attempt ==
    /\ pc = "head"
    /\ Len(items) < count
    /\ \E c \in pool :
          /\ creation' = c
          /\ items' = IF Accepts(c, keywords.list, items)
                      THEN Append(items, c) ELSE items
    /\ tries' = Bump(tries)
    /\ unpolled' = unpolled + 1
    /\ late' = IF elapsed > max_time THEN Bump(late) ELSE late
    /\ pc' = "poll"
    /\ UNCHANGED <<pool, count, keywords, max_time, elapsed, expired, before>>

\* Deadline with the `break` missing: the check reports and the loop goes on
DeadlineNoBreak ==
    /\ pc = "poll"
    /\ unpolled' = unpolled - 1
    /\ expired' = (expired \/ elapsed > max_time)
    /\ pc' = "head"
    /\ UNCHANGED <<pool, items, count, keywords, max_time, elapsed, tries,
                   creation, late, before>>

\* Deadline comparing against a budget one tick too long
DeadlineLagging ==
    /\ pc = "poll"
    /\ unpolled' = unpolled - 1
    /\ IF elapsed > max_time + 1
       THEN expired' = TRUE /\ pc' = "returned"
       ELSE expired' = expired /\ pc' = "head"
    /\ UNCHANGED <<pool, items, count, keywords, max_time, elapsed, tries,
                   creation, late, before>>

\* the deadline check `if time.time() - start > max_time: break` (lines 179-183)
Deadline ==
    /\ pc = "poll"
    /\ unpolled' = unpolled - 1
    /\ IF elapsed > max_time
       THEN expired' = TRUE /\ pc' = "returned"
       ELSE expired' = expired /\ pc' = "head"
    /\ UNCHANGED <<pool, items, count, keywords, max_time, elapsed, tries,
                   creation, late, before>>

\* the while condition `len(self.items) < count` fails: return self.items
LoopExit ==
    /\ pc = "head"
    /\ Len(items) >= count
    /\ pc' = "returned"
    /\ UNCHANGED <<pool, items, count, keywords, max_time, elapsed, tries,
                   unpolled, creation, expired, late, before>>

\* the wall clock advances while the loop runs; it is followed until it has
\* passed max_time, after which every reading of time.time() gives the same answer
Tick ==
    /\ pc \in {"head", "poll"}
    /\ elapsed <= max_time
    /\ elapsed' = elapsed + 1
    /\ UNCHANGED <<pool, items, pc, count, keywords, max_time, tries,
                   unpolled, creation, expired, late, before>>

\* the caller has the returned list and the call's locals are gone; the
\* instance can be called again
Return ==
    /\ pc = "returned"
    /\ pc' = "idle"
    /\ count' = 0
    /\ keywords' = NoKeywords
    /\ max_time' = 0
    /\ elapsed' = 0
    /\ tries' = 0
    /\ unpolled' = 0
    /\ creation' = NoItem
    /\ expired' = FALSE
    /\ late' = 0
    /\ before' = 0
    /\ UNCHANGED <<pool, items>>

----------------------------------------------------------------------------
(* LinkedGenerator._substitute_headers *)

\* the positions of the delimiter in s, from position i on
RECURSIVE StarsFrom(_, _)
StarsFrom(s, i) ==
    IF i > Len(s) THEN <<>>
    ELSE (IF s[i] = "*" THEN <<i>> ELSE <<>>) \o StarsFrom(s, i + 1)

\* FindAll with both delimiters optional in the pattern (r"\*?[^*]+\*?"): text
\* without a delimiter is then one match
FindAllOptionalDelimiters(entry) ==
    LET p == StarsFrom(entry, 1)
    IN IF p = <<>> /\ entry # <<>> THEN <<entry>>
       ELSE [k \in 1..(Len(p) \div 2) |-> SubSeq(entry, p[2 * k - 1], p[2 * k])]

\* re.compile(r"\*[^*]*\*").findall(entry): the non-overlapping matches, left
\* to right, each from one delimiter to the next
FindAll(entry) ==
    LET p == StarsFrom(entry, 1)
    IN [k \in 1..(Len(p) \div 2) |-> SubSeq(entry, p[2 * k - 1], p[2 * k])]

\* where hdr first occurs in entry, 0 if nowhere
FirstIndex(entry, hdr) ==
    LET at == {i \in 1..(Len(entry) - Len(hdr) + 1) :
                  SubSeq(entry, i, i + Len(hdr) - 1) = hdr}
    IN IF at = {} THEN 0 ELSE CHOOSE i \in at : \A j \in at : i <= j

\* where hdr last occurs in entry, 0 if nowhere
LastIndex(entry, hdr) ==
    LET at == {i \in 1..(Len(entry) - Len(hdr) + 1) :
                  SubSeq(entry, i, i + Len(hdr) - 1) = hdr}
    IN IF at = {} THEN 0 ELSE CHOOSE i \in at : \A j \in at : i >= j

\* a replace that takes the last occurrence of hdr
ReplaceLastOccurrence(entry, hdr, new_entry) ==
    LET i == LastIndex(entry, hdr)
    IN IF i = 0 THEN entry
       ELSE SubSeq(entry, 1, i - 1) \o new_entry
            \o SubSeq(entry, i + Len(hdr), Len(entry))

\* entry.replace(hdr, new_entry, 1)
Replace(entry, hdr, new_entry) ==
    LET i == FirstIndex(entry, hdr)
    IN IF i = 0 THEN entry
       ELSE SubSeq(entry, 1, i - 1) \o new_entry
            \o SubSeq(entry, i + Len(hdr), Len(entry))

\* hdr[1:-1]
TrimAsterisks(hdr) == SubSeq(hdr, 2, Len(hdr) - 1)

\* what a call returns or raises; a special-case function returns text or a
\* Creation
TextResult(t) == [kind |-> "text", text |-> t, item |-> NoItem]
CreationResult(c) == [kind |-> "creation", text |-> <<>>, item |-> c]
Raised(e) == [kind |-> e, text |-> <<>>, item |-> NoItem]
NoResult == Raised("none")

\* a _substitute_headers call: its entry, the headers found in it on entry, and
\* the position of the for loop in them
Frame(entry) == [entry |-> entry, headers |-> FindAll(entry), i |-> 1]

Top == stack[Len(stack)]
Hdr == Top.headers[Top.i]
InLoop == rpc = "running" /\ Top.i <= Len(Top.headers)

\* the frame after `entry = entry.replace(hdr, new_entry, 1)` and the next pass
Substituted(f, new_entry) ==
    [f EXCEPT !.entry = Replace(f.entry, f.headers[f.i], new_entry),
              !.i = f.i + 1]

\* the table stores a generator can have loaded: every category has entries
PairedTables ==
    (<<"a">> :> << <<"x">>, <<"y">> >>)
    @@ (<<"b">> :> << <<"*","a","*">>, <<"x","*","a","*">> >>)
    @@ (<<"s">> :> << <<"x">> >>)
    @@ (<<"c">> :> << <<"*","c","*">> >>)
    @@ (<<"d">> :> << <<"*","s","*"," ","*","a","*">> >>)
    @@ (<<"e">> :> << <<"*","c","*">>, <<"x">> >>)

UnpairedTables ==
    (<<"a">> :> << <<"x","*">>, <<"y">> >>)
    @@ (<<"b">> :> << <<"*","a","*">> >>)
    @@ (<<"s">> :> << <<"x">> >>)
    @@ (<<"d">> :> << <<"*","q","*">> >>)

\* a store in which a resolved entry of a is itself the text of a reference
StrayTables ==
    (<<"a">> :> << <<"*","b","*","a","*">>, <<"y">> >>)
    @@ (<<"b">> :> << <<"*">> >>)

TableStores == { PairedTables, UnpairedTables, StrayTables }

\* the special-case maps: nothing bound, or *s* bound to a function returning
\* text, text or a Creation, or text that holds a header
SpecialCaseMaps ==
    { <<>>,
      (<<"*","s","*">> :> { TextResult(<<"y">>) }),
      (<<"*","s","*">> :> { TextResult(<<"y">>),
                            CreationResult(MkCreation(<<"x">>, <<>>, <<>>)) }),
      (<<"*","s","*">> :> { TextResult(<<"*","a","*">>) }) }

\* the entries the generators pass to _substitute_headers
Texts ==
    { <<"x"," ","y">>,
      <<"*","a","*">>,
      <<"*","b","*">>,
      <<"*","a","*"," ","*","a","*">>,
      <<"*","s","*">>,
      <<"*","s","*"," ","*","a","*">>,
      <<"*","q","*">>,
      <<"*","a","*","x","*">>,
      <<"*","c","*">>,
      <<"*","e","*">>,
      <<"*","d","*"," ","*","a","*">> }

\* LinkedGenerator.__init__: the tables are loaded and the special cases bound
ResInit ==
    /\ tables \in TableStores
    /\ special \in SpecialCaseMaps
    /\ text \in Texts
    /\ stack = <<>>
    /\ rpc = "idle"
    /\ result = NoResult
    /\ draws = 0
    /\ funcs = 0
    /\ seen = {}

\* the generator calls self._substitute_headers(text)
Resolve ==
    /\ rpc = "idle"
    /\ stack' = <<Frame(text)>>
    /\ rpc' = "running"
    /\ result' = NoResult
    /\ draws' = 0
    /\ funcs' = 0
    /\ UNCHANGED <<tables, special, text, seen>>

\* SpecialCase with the table consulted first: a header whose name is a table
\* is drawn from the table although it is bound
SpecialCaseAfterTable ==
    /\ InLoop
    /\ Hdr \in DOMAIN special
    /\ IF TrimAsterisks(Hdr) \in DOMAIN tables
       THEN /\ \E k \in 1..Len(tables[TrimAsterisks(Hdr)]) :
                  stack' = [stack EXCEPT ![Len(stack)] =
                               Substituted(Top, tables[TrimAsterisks(Hdr)][k])]
            /\ draws' = draws + 1
            /\ UNCHANGED <<rpc, result, seen, funcs>>
       ELSE /\ \E new_entry \in special[Hdr] :
                  IF new_entry.kind = "creation"
                  THEN /\ stack' = <<>>
                       /\ rpc' = "done"
                       /\ result' = new_entry
                       /\ seen' = seen \cup {new_entry}
                  ELSE /\ stack' = [stack EXCEPT ![Len(stack)] =
                                       Substituted(Top, new_entry.text)]
                       /\ UNCHANGED <<rpc, result, seen>>
            /\ funcs' = funcs + 1
            /\ draws' = draws
    /\ UNCHANGED <<tables, special, text>>

\* SpecialCase with the isinstance test missing in the calling frames: a
\* Creation returned inside a recursive call is rendered into the caller's text
SpecialCaseCreationInterpolated ==
    /\ InLoop
    /\ Hdr \in DOMAIN special
    /\ \E new_entry \in special[Hdr] :
          IF new_entry.kind = "creation" /\ Len(stack) = 1
          THEN /\ stack' = <<>>
               /\ rpc' = "done"
               /\ result' = new_entry
               /\ seen' = seen \cup {new_entry}
          ELSE IF new_entry.kind = "creation"
          THEN /\ stack' = [SubSeq(stack, 1, Len(stack) - 1) EXCEPT
                               ![Len(stack) - 1] =
                                   Substituted(stack[Len(stack) - 1],
                                               Str(new_entry.item))]
               /\ UNCHANGED <<rpc, result, seen>>
          ELSE /\ stack' = [stack EXCEPT
                               ![Len(stack)] = Substituted(Top, new_entry.text)]
               /\ UNCHANGED <<rpc, result, seen>>
    /\ funcs' = funcs + 1
    /\ UNCHANGED <<tables, special, text, draws>>

\* hdr is a special case: new_entry = func(); a Creation is returned at once,
\* by this call and by every call above it; text is substituted (lines 415-418,
\* 428-432)
SpecialCase ==
    /\ InLoop
    /\ Hdr \in DOMAIN special
    /\ \E new_entry \in special[Hdr] :
          IF new_entry.kind = "creation"
          THEN /\ stack' = <<>>
               /\ rpc' = "done"
               /\ result' = new_entry
               /\ seen' = seen \cup {new_entry}
          ELSE /\ stack' = [stack EXCEPT
                               ![Len(stack)] = Substituted(Top, new_entry.text)]
               /\ UNCHANGED <<rpc, result, seen>>
    /\ funcs' = funcs + 1
    /\ UNCHANGED <<tables, special, text, draws>>

\* Draw without the recursive call: the drawn entry is substituted as it is
DrawWithoutRecursion ==
    /\ InLoop
    /\ Hdr \notin DOMAIN special
    /\ TrimAsterisks(Hdr) \in DOMAIN tables
    /\ \E k \in 1..Len(tables[TrimAsterisks(Hdr)]) :
          stack' = [stack EXCEPT ![Len(stack)] =
                       Substituted(Top, tables[TrimAsterisks(Hdr)][k])]
    /\ draws' = draws + 1
    /\ UNCHANGED <<tables, special, text, funcs, rpc, result, seen>>

\* Draw with a choice that never takes the last entry of a longer table
DrawNeverLast ==
    /\ InLoop
    /\ Hdr \notin DOMAIN special
    /\ TrimAsterisks(Hdr) \in DOMAIN tables
    /\ \E k \in 1..Len(tables[TrimAsterisks(Hdr)]) :
          /\ (k < Len(tables[TrimAsterisks(Hdr)])
                \/ Len(tables[TrimAsterisks(Hdr)]) = 1)
          /\ LET new_entry == tables[TrimAsterisks(Hdr)][k]
             IN IF Len(stack) < MaxDepth
                THEN /\ stack' = Append(stack, Frame(new_entry))
                     /\ UNCHANGED <<rpc, result, seen>>
                ELSE /\ stack' = <<>>
                     /\ rpc' = "done"
                     /\ result' = Raised("RecursionError")
                     /\ seen' = seen \cup {Raised("RecursionError")}
    /\ draws' = draws + 1
    /\ UNCHANGED <<tables, special, text, funcs>>

\* Draw with a depth limit: at MaxDepth nested calls the drawn entry is
\* substituted unresolved instead of a further call being made
DrawDepthLimited ==
    /\ InLoop
    /\ Hdr \notin DOMAIN special
    /\ TrimAsterisks(Hdr) \in DOMAIN tables
    /\ \E k \in 1..Len(tables[TrimAsterisks(Hdr)]) :
          LET new_entry == tables[TrimAsterisks(Hdr)][k]
          IN IF Len(stack) < MaxDepth
             THEN stack' = Append(stack, Frame(new_entry))
             ELSE stack' = [stack EXCEPT ![Len(stack)] =
                               Substituted(Top, new_entry)]
    /\ draws' = draws + 1
    /\ UNCHANGED <<tables, special, text, funcs, rpc, result, seen>>

\* the general case: new_entry = random.choice(self._tables[hdr[1:-1]]), then
\* the recursive call on it (lines 423-424)
Draw ==
    /\ InLoop
    /\ Hdr \notin DOMAIN special
    /\ TrimAsterisks(Hdr) \in DOMAIN tables
    /\ \E k \in 1..Len(tables[TrimAsterisks(Hdr)]) :
          LET new_entry == tables[TrimAsterisks(Hdr)][k]
          IN IF Len(stack) < MaxDepth
             THEN /\ stack' = Append(stack, Frame(new_entry))
                  /\ UNCHANGED <<rpc, result, seen>>
             ELSE /\ stack' = <<>>
                  /\ rpc' = "done"
                  /\ result' = Raised("RecursionError")
                  /\ seen' = seen \cup {Raised("RecursionError")}
    /\ draws' = draws + 1
    /\ UNCHANGED <<tables, special, text, funcs>>

\* the general case with no such table: self._tables[...] raises KeyError, which
\* no call catches
UnknownCategory ==
    /\ InLoop
    /\ Hdr \notin DOMAIN special
    /\ TrimAsterisks(Hdr) \notin DOMAIN tables
    /\ stack' = <<>>
    /\ rpc' = "done"
    /\ result' = Raised("KeyError")
    /\ seen' = seen \cup {Raised("KeyError")}
    /\ UNCHANGED <<tables, special, text, draws, funcs>>

\* the for loop is over: return entry; the calling frame, if any, substitutes
\* it for its header (lines 424, 428-434)
ReturnEntry ==
    /\ rpc = "running"
    /\ Top.i > Len(Top.headers)
    /\ IF Len(stack) = 1
       THEN /\ stack' = <<>>
            /\ rpc' = "done"
            /\ result' = TextResult(Top.entry)
            /\ seen' = seen \cup {TextResult(Top.entry)}
       ELSE /\ stack' = [SubSeq(stack, 1, Len(stack) - 1) EXCEPT
                            ![Len(stack) - 1] =
                                Substituted(stack[Len(stack) - 1], Top.entry)]
            /\ UNCHANGED <<rpc, result, seen>>
    /\ UNCHANGED <<tables, special, text, draws, funcs>>

\* the generator has used the result and will produce its next item
NextItem ==
    /\ rpc = "done"
    /\ rpc' = "idle"
    /\ UNCHANGED <<tables, special, text, stack, result, draws, funcs, seen>>

----------------------------------------------------------------------------
(* generate on a LinkedGenerator whose _generator resolves a template *)

\* the templates _generator chooses from
LinkedTemplates ==
    { <<"*","a","*">>,
      <<"*","q","*">>,
      <<"*","d","*"," ","*","a","*">> }

\* the special-case maps whose functions return text
TextSpecialCaseMaps ==
    { m \in SpecialCaseMaps : \A h \in DOMAIN m : \A r \in m[h] : r.kind = "text" }

LinkedKeywordArgs == { NoKeywords, KeywordList(<< <<"x">> >>) }

\* the exceptions that leave _substitute_headers
Exceptions == { "KeyError", "RecursionError" }

\* a generator is constructed: no items, tables loaded, special cases bound
LinkedInit ==
    /\ pool = NamePool
    /\ items = <<>>
    /\ pc = "idle"
    /\ count = 0
    /\ keywords = NoKeywords
    /\ max_time = 0
    /\ elapsed = 0
    /\ tries = 0
    /\ unpolled = 0
    /\ creation = NoItem
    /\ expired = FALSE
    /\ late = 0
    /\ before = 0
    /\ tables \in TableStores
    /\ special \in TextSpecialCaseMaps
    /\ text = <<>>
    /\ stack = <<>>
    /\ rpc = "idle"
    /\ result = NoResult
    /\ draws = 0
    /\ funcs = 0
    /\ seen = {}

\* generate calls self._generator(), which chooses a template and calls
\* self._substitute_headers on it
Produce ==
    /\ rpc = "idle"
    /\ \/ pc = "plain" /\ tries < count
       \/ pc = "head" /\ Len(items) < count
    /\ \E t \in LinkedTemplates :
          /\ text' = t
          /\ stack' = <<Frame(t)>>
    /\ rpc' = "running"
    /\ result' = NoResult
    /\ draws' = 0
    /\ funcs' = 0
    /\ UNCHANGED <<tables, special, seen>>
    /\ UNCHANGED genVars

\* _generator returns Name(text) and the plain loop appends it
LinkedPlainAppend ==
    /\ pc = "plain"
    /\ rpc = "done"
    /\ result.kind = "text"
    /\ items' = Append(items, MkName(result.text))
    /\ creation' = MkName(result.text)
    /\ tries' = tries + 1
    /\ rpc' = "idle"
    /\ UNCHANGED <<pool, pc, count, keywords, max_time, elapsed, unpolled,
                   expired, late, before>>
    /\ UNCHANGED <<tables, special, text, stack, result, draws, funcs, seen>>

\* _generator returns Name(text) and the keyword loop tests it
LinkedAttempt ==
    /\ pc = "head"
    /\ rpc = "done"
    /\ result.kind = "text"
    /\ creation' = MkName(result.text)
    /\ items' = IF Accepts(MkName(result.text), keywords.list, items)
                THEN Append(items, MkName(result.text)) ELSE items
    /\ tries' = Bump(tries)
    /\ unpolled' = unpolled + 1
    /\ late' = IF elapsed > max_time THEN Bump(late) ELSE late
    /\ pc' = "poll"
    /\ rpc' = "idle"
    /\ UNCHANGED <<pool, count, keywords, max_time, elapsed, expired, before>>
    /\ UNCHANGED <<tables, special, text, stack, result, draws, funcs, seen>>

\* Propagate with generate catching the exception and returning its items
PropagateCaught ==
    /\ pc \in {"plain", "head"}
    /\ rpc = "done"
    /\ result.kind \in Exceptions
    /\ pc' = "returned"
    /\ rpc' = "idle"
    /\ UNCHANGED <<pool, items, count, keywords, max_time, elapsed, tries,
                   unpolled, creation, expired, late, before>>
    /\ UNCHANGED <<tables, special, text, stack, result, draws, funcs, seen>>

\* the exception leaves _generator and generate, neither of which catches it:
\* nothing is appended and generate returns nothing
Propagate ==
    /\ pc \in {"plain", "head"}
    /\ rpc = "done"
    /\ result.kind \in Exceptions
    /\ pc' = "raised"
    /\ rpc' = "idle"
    /\ UNCHANGED <<pool, items, count, keywords, max_time, elapsed, tries,
                   unpolled, creation, expired, late, before>>
    /\ UNCHANGED <<tables, special, text, stack, result, draws, funcs, seen>>

----------------------------------------------------------------------------
(* The table files: _text_file_to_dict, _update, _get_tables *)

\* the characters of the table files, in code point order
CodeOrder == <<" ", "#", "A", "B", "a", "b", "x", "y", "|">>

Ord(c) == CHOOSE i \in 1..Len(CodeOrder) : CodeOrder[i] = c

\* s < t as Python compares strings: by code point, a proper prefix first
RECURSIVE StrLess(_, _)
StrLess(s, t) ==
    IF t = <<>> THEN FALSE
    ELSE IF s = <<>> THEN TRUE
    ELSE IF Head(s) = Head(t) THEN StrLess(Tail(s), Tail(t))
    ELSE Ord(Head(s)) < Ord(Head(t))

\* sorted(list(S)) for a set S of strings
RECURSIVE Sorted(_)
Sorted(S) ==
    IF S = {} THEN <<>>
    ELSE LET least == CHOOSE x \in S : \A y \in S \ {x} : StrLess(x, y)
         IN <<least>> \o Sorted(S \ {least})

\* self._demarcation_char
demar == <<" ", "|", " ">>

\* line.split(demar): the pieces between the occurrences of demar, found left
\* to right, empty pieces kept
RECURSIVE SplitOn(_, _)
SplitOn(line, sep) ==
    LET i == FirstIndex(line, sep)
    IN IF i = 0 THEN <<line>>
       ELSE <<SubSeq(line, 1, i - 1)>>
            \o SplitOn(SubSeq(line, i + Len(sep), Len(line)), sep)

\* demar.join(entries)
RECURSIVE Join(_, _)
Join(entries, sep) ==
    IF entries = <<>> THEN <<>>
    ELSE IF Len(entries) = 1 THEN entries[1]
    ELSE entries[1] \o sep \o Join(Tail(entries), sep)

\* current_list before any header line is read
NoneKey == <<"None">>

\* a dict as its items in insertion order
Keys(contents) == {contents[i].key : i \in 1..Len(contents)}

Get(contents, key) ==
    contents[CHOOSE i \in 1..Len(contents) : contents[i].key = key].value

\* contents[key] = value: a new key goes last, a present key keeps its place
Put(contents, key, value) ==
    IF key \in Keys(contents)
    THEN [i \in 1..Len(contents) |->
             IF contents[i].key = key
             THEN [key |-> key, value |-> value] ELSE contents[i]]
    ELSE Append(contents, [key |-> key, value |-> value])

\* the loop of _text_file_to_dict over the lines of a file from line i on
RECURSIVE ParseFrom(_, _, _, _)
ParseFrom(lines, i, current_list, contents) ==
    IF i > Len(lines) THEN contents
    ELSE LET line == Strip(lines[i])
         IN IF line = <<>>
            THEN ParseFrom(lines, i + 1, current_list, contents)
            ELSE IF line[1] = "#"
            THEN ParseFrom(lines, i + 1, Strip(Tail(line)), contents)
            ELSE ParseFrom(lines, i + 1, current_list,
                           Put(contents, current_list,
                               [k \in 1..Len(SplitOn(line, demar)) |->
                                   Strip(SplitOn(line, demar)[k])]))

TextFileToDict(lines) == ParseFrom(lines, 1, NoneKey, <<>>)

\* sorted(list(set(map(lambda x: x.lower(), entries))))
Canonical(entries) ==
    Sorted({LowerStr(entries[k]) : k \in 1..Len(entries)})

\* the first loop of _update
Canonicalized(contents) ==
    [i \in 1..Len(contents) |->
        [key |-> contents[i].key, value |-> Canonical(contents[i].value)]]

\* the second loop of _update: the lines of text, each ended by "\n"
RECURSIVE FormatFrom(_, _)
FormatFrom(contents, i) ==
    IF i > Len(contents) THEN <<>>
    ELSE << <<"#", " ">> \o contents[i].key,
            Join(contents[i].value, demar),
            <<>> >>
         \o FormatFrom(contents, i + 1)

\* "# " + key raises TypeError when key is None
UpdateRaises(lines) == NoneKey \in Keys(TextFileToDict(lines))

\* the lines _update writes to a file holding lines
Updated(lines) == FormatFrom(Canonicalized(TextFileToDict(lines)), 1)

\* what _get_tables raises for a header already in tables
DuplicateHeader == [ok |-> FALSE, tables |-> <<>>]

\* the loop of _get_tables over the parsed files from file i on, and inside it
\* the loop over the items of a file from item j on
RECURSIVE GetTablesFrom(_, _, _, _)
GetTablesFrom(parsed, i, j, acc) ==
    IF i > Len(parsed) THEN [ok |-> TRUE, tables |-> acc]
    ELSE IF j > Len(parsed[i]) THEN GetTablesFrom(parsed, i + 1, 1, acc)
    ELSE IF parsed[i][j].key \in Keys(acc) THEN DuplicateHeader
    ELSE GetTablesFrom(parsed, i, j + 1,
                       Append(acc, parsed[i][j]))

\* _get_tables on the files whose lines are given, in order
GetTables(sources) ==
    GetTablesFrom([i \in 1..Len(sources) |-> TextFileToDict(sources[i])],
                  1, 1, <<>>)

----------------------------------------------------------------------------
(* Generator.__init__: _update_tables, _update, _get_tables *)

\* table_filenames, in order
Filenames == <<"f", "g">>

FileSet == {Filenames[i] : i \in 1..Len(Filenames)}

\* the table_filenames the generator classes are constructed with
FilenameLists == { Filenames, <<"f">>, <<"g">> }

\* table files: a tidy one with upper case, a repeated and unsorted entries;
\* one with an entry that starts with the header marker; one with an empty
\* entry; one that defines a category twice; one with entries before any
\* header; an empty one; and two single-category files
Tidy == << <<"#"," ","a">>, <<"b"," ","|"," ","B"," ","|"," ","a"," ","|"," ","b">> >>
HashEntry == << <<"#"," ","a">>, <<"b"," ","|"," ","#","b">> >>
EmptyEntry == << <<"#"," ","a">>, <<"b"," ","|"," "," ","|"," ","a">> >>
TwiceInFile == << <<"#"," ","a">>, <<"x">>, <<"#"," ","a">>, <<"y">> >>
Headless == << <<"x">>, <<"#"," ","a">>, <<"y">> >>
EmptyFile == << >>
OtherCategory == << <<"#","b">>, <<"x"," ","|"," ","A">> >>
SameCategory == << <<"#"," ","a">>, <<"y">> >>

\* the table files a generator is constructed on
FileSets ==
    { <<Tidy, OtherCategory>>, <<Tidy, SameCategory>>, <<HashEntry, OtherCategory>>,
      <<EmptyEntry, OtherCategory>>, <<TwiceInFile, OtherCategory>>,
      <<OtherCategory, Headless>>, <<EmptyFile, Tidy>> }

\* what an editor can leave in a table file
Edits == { Tidy, SameCategory }

NoMarker == [exists |-> FALSE, mtime |-> 0]
MarkerAt(t) == [exists |-> TRUE, mtime |-> t]

NoStore == [ok |-> FALSE, tables |-> <<>>]

TabInit ==
    /\ \E fs \in FileSets : files = [i \in FileSet |->
                                      IF i = Filenames[1] THEN fs[1] ELSE fs[2]]
    /\ mtime = [f \in FileSet |-> 0]
    /\ marker \in {NoMarker, MarkerAt(0)}
    /\ now = 0
    /\ tpc = "idle"
    /\ todo = <<>>
    /\ rewritten = {}
    /\ store = NoStore
    /\ force = FALSE
    /\ mtime0 = mtime
    /\ marker0 = marker
    /\ table_filenames = <<>>
    /\ settled = FALSE
    /\ pending = {}

\* _was_modified with `>=` for `>`
WasModifiedOrSame(filename, last_runtime) == mtime[filename] >= last_runtime

\* _was_modified(filename, last_runtime)
WasModified(filename, last_runtime) == mtime[filename] > last_runtime

\* Generator(force_table_update, table_filenames): _update_tables decides which
\* files to update; with no marker file it writes one first (lines 274-289)
Construct(force_table_update, filenames) ==
    /\ tpc = "idle"
    /\ force' = force_table_update
    /\ table_filenames' = filenames
    /\ mtime0' = mtime
    /\ marker0' = marker
    /\ IF force_table_update
       THEN todo' = filenames /\ marker' = marker
       ELSE IF ~marker.exists
       THEN todo' = filenames /\ marker' = MarkerAt(now)
       ELSE /\ todo' = SelectSeq(filenames,
                                 LAMBDA x : WasModified(x, marker.mtime))
            /\ marker' = marker
    /\ rewritten' = {}
    /\ settled' = FALSE
    /\ store' = NoStore
    /\ tpc' = "updating"
    /\ UNCHANGED <<files, mtime, now, pending>>

\* one pass of the loop of _update: the file is parsed, canonicalized and
\* written, or "# " + key raises TypeError and the construction fails
UpdateFile ==
    /\ tpc = "updating"
    /\ todo # <<>>
    /\ IF UpdateRaises(files[Head(todo)])
       THEN /\ tpc' = "raised"
            /\ UNCHANGED <<files, mtime, rewritten, todo, pending>>
       ELSE /\ files' = [files EXCEPT ![Head(todo)] = Updated(files[Head(todo)])]
            /\ mtime' = [mtime EXCEPT ![Head(todo)] = now]
            /\ rewritten' = rewritten \cup {Head(todo)}
            /\ pending' = pending \ {Head(todo)}
            /\ todo' = Tail(todo)
            /\ tpc' = tpc
    /\ UNCHANGED <<marker, now, store, force, mtime0, marker0, table_filenames,
                   settled>>

\* WriteMarker put before the rewrites only: the end of _update_tables leaves
\* the marker as it is
WriteMarkerSkipped ==
    /\ tpc = "updating"
    /\ todo = <<>>
    /\ marker' = IF marker.exists THEN marker ELSE MarkerAt(now)
    /\ settled' = TRUE
    /\ tpc' = "loading"
    /\ UNCHANGED <<files, mtime, now, todo, rewritten, store, force,
                   mtime0, marker0, table_filenames, pending>>

\* the end of _update_tables: the marker file is written (lines 291-292)
WriteMarker ==
    /\ tpc = "updating"
    /\ todo = <<>>
    /\ marker' = MarkerAt(now)
    /\ settled' = TRUE
    /\ tpc' = "loading"
    /\ UNCHANGED <<files, mtime, now, todo, rewritten, store, force,
                   mtime0, marker0, table_filenames, pending>>

\* self._tables = self._get_tables(...)
LoadTables ==
    /\ tpc = "loading"
    /\ store' = GetTables([i \in 1..Len(table_filenames) |->
                                files[table_filenames[i]]])
    /\ tpc' = IF store'.ok THEN "constructed" ELSE "duplicate"
    /\ UNCHANGED <<files, mtime, marker, now, todo, rewritten, force,
                   mtime0, marker0, table_filenames, settled, pending>>

\* the process ends; the program is run again later
Rerun ==
    /\ tpc \in {"constructed", "raised", "duplicate"}
    /\ tpc' = "idle"
    /\ store' = NoStore
    /\ todo' = <<>>
    /\ table_filenames' = <<>>
    /\ UNCHANGED <<files, mtime, marker, now, rewritten, force, mtime0,
                   marker0, settled, pending>>

\* between runs somebody edits or touches a table file
Modify(filename, lines) ==
    /\ tpc = "idle"
    /\ files' = [files EXCEPT ![filename] = lines]
    /\ mtime' = [mtime EXCEPT ![filename] = now]
    /\ settled' = FALSE
    /\ pending' = IF marker.exists /\ now <= marker.mtime
                  THEN pending ELSE pending \cup {filename}
    /\ UNCHANGED <<marker, now, tpc, todo, rewritten, store, force, mtime0,
                   marker0, table_filenames>>

\* the clock of the file system advances
ClockTick ==
    /\ now < MaxClock
    /\ now' = now + 1
    /\ UNCHANGED <<files, mtime, marker, tpc, todo, rewritten, store, force,
                   mtime0, marker0, table_filenames, settled, pending>>

----------------------------------------------------------------------------
(* A run of the program: main, generate, _get_other_generator_output *)

\* a generator instance whose generate(count, keywords, ...) has been called
Instance(c, given, force_table_update, suppress_print) ==
    [items |-> <<>>, count |-> c, given |-> given,
     force |-> force_table_update, suppress |-> suppress_print,
     made |-> 0, phase |-> "loop"]

\* the instance whose code is running
Running == insts[Len(insts)]

\* the items a production can make
ProcPool == { MkName(<<"a">>), MkName(<<"b">>) }

Counted(n) == IF n < MaxChecks THEN n + 1 ELSE n

\* GeneratorLibrary().generators_by_type: (type, name) -> the table filenames
\* the generator class is constructed with
generators_by_type ==
    [k \in { <<"name", "spells">>, <<"item", "fantasy-mundane">> } |->
        IF k[1] = "name" THEN <<"f">> ELSE <<"f", "g">>]

\* the (generator_type, generator_name) pairs a production can pass to
\* _get_other_generator_output
InvocationKeys == DOMAIN generators_by_type \cup { <<"name", "orcs">> }

\* _update_tables(force_update, table_filenames) run to its end: the files to
\* update are rewritten and the marker file is written
UpdateTables(force_update, filenames) ==
    LET mine == {filenames[i] : i \in 1..Len(filenames)}
        files_to_update ==
            IF force_update \/ ~marker.exists THEN mine
            ELSE {x \in mine : WasModified(x, marker.mtime)}
    IN /\ files' = [x \in FileSet |-> IF x \in files_to_update
                                       THEN Updated(files[x]) ELSE files[x]]
       /\ mtime' = [x \in FileSet |-> IF x \in files_to_update
                                       THEN now ELSE mtime[x]]
       /\ marker' = MarkerAt(now)
       /\ rewritten' = files_to_update
       /\ pending' = pending \ files_to_update
       /\ UNCHANGED <<now, tpc, todo, store, force, mtime0, marker0,
                      table_filenames, settled>>

ProcInit ==
    /\ library = generators_by_type
    /\ insts = <<>>
    /\ checks = 0
    /\ resolutions = 0
    /\ lateChecks = 0
    /\ handed = NoItem
    /\ ppc = "start"

\* main: the generator is constructed, which runs _update_tables, and its
\* generate is called with the command line's arguments
Main(c, given, force_table_update) ==
    /\ ppc = "start"
    /\ \E k \in DOMAIN library : UpdateTables(force_table_update, library[k])
    /\ insts' = <<Instance(c, given, force_table_update, FALSE)>>
    /\ checks' = Counted(checks)
    /\ lateChecks' = lateChecks
    /\ ppc' = "running"
    /\ UNCHANGED <<library, resolutions, handed>>

\* generate calls self._generator()
StartProduction ==
    /\ ppc = "running"
    /\ Running.phase = "loop"
    /\ IF Running.given THEN Len(Running.items) < Running.count
                        ELSE Running.made < Running.count
    /\ insts' = [insts EXCEPT ![Len(insts)].phase = "producing"]
    /\ handed' = NoItem
    /\ UNCHANGED <<library, checks, resolutions, lateChecks, ppc>>

\* the production calls self._substitute_headers
Resolution ==
    /\ ppc = "running"
    /\ Running.phase = "producing"
    /\ resolutions' = Counted(resolutions)
    /\ UNCHANGED <<library, insts, checks, lateChecks, handed, ppc>>

\* Invoke on a generator kept from an earlier call: nothing is constructed, so
\* _update_tables does not run, and the generator keeps its items
InvokeCached ==
    /\ ppc = "running"
    /\ Running.phase = "producing"
    /\ Len(insts) < MaxNest
    /\ insts' = Append(insts, [Instance(1, FALSE, FALSE, TRUE) EXCEPT
                                  !.items = Running.items])
    /\ UNCHANGED tabVars
    /\ UNCHANGED <<library, checks, resolutions, lateChecks, handed, ppc>>

\* the lookup of an unregistered pair made after the update step of a
\* construction: the marker file is written before KeyError is raised
InvokeUnregisteredAfterUpdate ==
    /\ ppc = "running"
    /\ Running.phase = "producing"
    /\ \E k \in InvocationKeys \ DOMAIN library :
          UpdateTables(FALSE, Filenames)
    /\ checks' = Counted(checks)
    /\ ppc' = "raised"
    /\ UNCHANGED <<library, insts, resolutions, lateChecks, handed>>

\* the production calls _get_other_generator_output with a pair the library
\* does not hold: library[generator_type][generator_name] raises KeyError
\* (line 340), before generator_class(False, *init_args) on the next line
InvokeUnregistered ==
    /\ ppc = "running"
    /\ Running.phase = "producing"
    /\ \E k \in InvocationKeys \ DOMAIN library : ppc' = "raised"
    /\ UNCHANGED <<library, insts, checks, resolutions, lateChecks, handed>>
    /\ UNCHANGED tabVars

\* the production calls _get_other_generator_output: generator_class(False,
\* *init_args) constructs a generator, which runs _update_tables, and
\* generate(1, None, 0.1, suppress_print=True) is called on it
Invoke ==
    /\ ppc = "running"
    /\ Running.phase = "producing"
    /\ Len(insts) < MaxNest
    /\ \E k \in InvocationKeys \cap DOMAIN library :
          UpdateTables(FALSE, library[k])
    /\ insts' = Append(insts, Instance(1, FALSE, FALSE, TRUE))
    /\ checks' = Counted(checks)
    /\ lateChecks' = IF resolutions > 0 THEN Counted(lateChecks) ELSE lateChecks
    /\ UNCHANGED <<library, resolutions, handed, ppc>>

\* self._generator() returns an item, possibly the one an invoked generator
\* handed over; the plain loop appends it, the keyword loop may reject it
Produced ==
    /\ ppc = "running"
    /\ Running.phase = "producing"
    /\ \E c \in ProcPool \cup ({handed} \ {NoItem}), keep \in BOOLEAN :
          insts' = [insts EXCEPT ![Len(insts)] =
                       [@ EXCEPT !.items = IF keep \/ ~Running.given
                                           THEN Append(@, c) ELSE @,
                                 !.made = Counted(@),
                                 !.phase = "loop"]]
    /\ handed' = NoItem
    /\ UNCHANGED <<library, checks, resolutions, lateChecks, ppc>>

\* the invoked generator's generate returns self.items and
\* _get_other_generator_output returns items[0] to the production that called it
InvokeReturn ==
    /\ ppc = "running"
    /\ Len(insts) > 1
    /\ Running.phase = "loop"
    /\ Running.made >= Running.count
    /\ insts' = SubSeq(insts, 1, Len(insts) - 1)
    /\ handed' = Running.items[1]
    /\ UNCHANGED <<library, checks, resolutions, lateChecks, ppc>>

\* the generate call made by main returns: the loop is over or, with keywords,
\* the deadline has passed
Exit ==
    /\ ppc = "running"
    /\ Len(insts) = 1
    /\ Running.phase = "loop"
    /\ IF Running.given
       THEN Len(Running.items) >= Running.count \/ Running.made >= 1
       ELSE Running.made >= Running.count
    /\ ppc' = "exited"
    /\ UNCHANGED <<library, insts, checks, resolutions, lateChecks, handed>>

----------------------------------------------------------------------------
(* Creation with Creations as attributes: __repr__, __len__, __contains__, *)
(* Generator.show                                                           *)

\* an attribute value that is a string
StrValue(t) == [kind |-> "str", text |-> t]

\* Creation(name, *attribute): labelled holds the (label, value) pairs with a
\* label, unlabelled the values without one; self.nested = 0
NewCreation(name, labelled, unlabelled) ==
    [kind |-> "Creation", name |-> name, attributes |-> labelled,
     unlabelled_attributes |-> unlabelled, nested |-> 0]

Labelled(label, value) == [label |-> label, value |-> value]

\* for _ in range(self.nested): display += "  "
RECURSIVE Indent(_)
Indent(n) == IF n = 0 THEN <<>> ELSE <<" ", " ">> \o Indent(n - 1)

\* Creation.__repr__: the display, and self with the nested counters the
\* rendering has left in the Creations inside it
RECURSIVE Repr(_)
RECURSIVE ReprLabelled(_, _, _)
RECURSIVE ReprUnlabelled(_, _, _)

\* the attribute after `attribute.nested += self.nested + 1`
Deepened(attribute, nested) ==
    IF attribute.kind = "Creation"
    THEN [attribute EXCEPT !.nested = @ + nested + 1]
    ELSE attribute

\* f"{attribute}"
Formatted(attribute) ==
    IF attribute.kind = "Creation" THEN Repr(attribute)
    ELSE [display |-> attribute.text, self |-> attribute]

\* the loop over self.attributes, each pass one _get_attr_display call
ReprLabelled(nested, attrs, i) ==
    IF i > Len(attrs) THEN [display |-> <<>>, attrs |-> attrs]
    ELSE LET r == Formatted(Deepened(attrs[i].value, nested))
             rest == ReprLabelled(nested, [attrs EXCEPT ![i].value = r.self],
                                  i + 1)
         IN [display |-> <<"\n", " ", " ">> \o Indent(nested) \o <<"-", " ">>
                         \o attrs[i].label \o <<":", " ">> \o r.display
                         \o rest.display,
             attrs |-> rest.attrs]

\* the loop over self.unlabelled_attributes, each pass one
\* _get_unlabelled_attr_display call
ReprUnlabelled(nested, attrs, i) ==
    IF i > Len(attrs) THEN [display |-> <<>>, attrs |-> attrs]
    ELSE LET r == Formatted(Deepened(attrs[i], nested))
             rest == ReprUnlabelled(nested, [attrs EXCEPT ![i] = r.self], i + 1)
         IN [display |-> <<"\n", " ", " ">> \o Indent(nested) \o <<"-", " ">>
                         \o r.display \o rest.display,
             attrs |-> rest.attrs]

Repr(self) ==
    LET a == ReprLabelled(self.nested, self.attributes, 1)
        u == ReprUnlabelled(self.nested, self.unlabelled_attributes, 1)
    IN [display |-> Capitalize(self.name) \o a.display \o u.display,
        self |-> [self EXCEPT !.attributes = a.attrs,
                              !.unlabelled_attributes = u.attrs]]

\* max(map(len, lines)) of Creation.__len__
LongestLine(display) ==
    LET lines == SplitOn(display, <<"\n">>)
    IN CHOOSE n \in {Len(lines[i]) : i \in 1..Len(lines)} :
          \A i \in 1..Len(lines) : Len(lines[i]) <= n

\* the Creations the generators build: a flat one, one holding a Creation
\* without attributes, Plant's (its "Known Effects" is a Creation of
\* unlabelled effects), and one three levels deep
EntityPool ==
    { NewCreation(<<"a","b">>, <<Labelled(<<"x">>, StrValue(<<"y">>))>>, <<>>),
      NewCreation(<<"a">>,
                  <<Labelled(<<"x">>, NewCreation(<<"b">>, <<>>, <<>>))>>, <<>>),
      NewCreation(<<"a">>,
                  <<Labelled(<<"x">>, StrValue(<<"y">>)),
                    Labelled(<<"b">>,
                             NewCreation(<<>>, <<>>, <<StrValue(<<"y">>)>>))>>,
                  <<>>),
      NewCreation(<<"b">>, <<>>,
                  <<NewCreation(<<"a">>,
                       <<Labelled(<<"x">>,
                            NewCreation(<<"b">>, <<>>, <<StrValue(<<"y">>)>>))>>,
                       <<>>)>>) }

NoOutput == [op |-> "none", display |-> <<>>, value |-> 0]

EntInit ==
    /\ \E n \in 1..2 : ents \in [1..n -> EntityPool]
    /\ made = ents
    /\ texts = [i \in DOMAIN ents |-> <<>>]
    /\ out = NoOutput

\* the rendering str(self.items[i]) that every operation below starts with
Rendering(i) == Repr(ents[i])

\* str(item), as print(result) in show and f"{...}" do
StrOf(i) ==
    /\ i \in DOMAIN ents
    /\ Len(texts[i]) < MaxRenders
    /\ ents' = [ents EXCEPT ![i] = Rendering(i).self]
    /\ texts' = [texts EXCEPT ![i] = Append(@, Rendering(i).display)]
    /\ out' = [op |-> "str", display |-> Rendering(i).display, value |-> 0]
    /\ made' = made

\* len(item)
LenOf(i) ==
    /\ i \in DOMAIN ents
    /\ Len(texts[i]) < MaxRenders
    /\ ents' = [ents EXCEPT ![i] = Rendering(i).self]
    /\ texts' = [texts EXCEPT ![i] = Append(@, Rendering(i).display)]
    /\ out' = [op |-> "len", display |-> <<>>,
               value |-> LongestLine(Rendering(i).display)]
    /\ made' = made

\* keyword in item
ContainsOf(i, keyword) ==
    /\ i \in DOMAIN ents
    /\ Len(texts[i]) < MaxRenders
    /\ ents' = [ents EXCEPT ![i] = Rendering(i).self]
    /\ texts' = [texts EXCEPT ![i] = Append(@, Rendering(i).display)]
    /\ out' = [op |-> "in", display |-> <<>>,
               value |-> IF IsSubstring(keyword, Rendering(i).display)
                         THEN 1 ELSE 0]
    /\ made' = made

\* Generator.show: max(map(len, self.items)) renders every item once, the loop
\* of print(result) renders every item once more
Show ==
    /\ \A i \in DOMAIN ents : Len(texts[i]) + 2 <= MaxRenders
    /\ LET first == [i \in DOMAIN ents |-> Repr(ents[i])]
           second == [i \in DOMAIN ents |-> Repr(first[i].self)]
       IN /\ ents' = [i \in DOMAIN ents |-> second[i].self]
          /\ texts' = [i \in DOMAIN ents |->
                          texts[i] \o <<first[i].display, second[i].display>>]
          /\ out' = [op |-> "show",
                     display |-> Join([i \in DOMAIN ents |-> second[i].display],
                                      <<"\n">>),
                     value |-> CHOOSE n \in {LongestLine(first[i].display) :
                                               i \in DOMAIN ents} :
                                  \A i \in DOMAIN ents :
                                     LongestLine(first[i].display) <= n]
    /\ made' = made

----------------------------------------------------------------------------
(* MysticOrders._generator *)

\* the tables a MysticOrders generator can have loaded: every table has
\* entries; Description with one entry, one entry twice, two and three
MysticTables ==
    { [Group |-> << <<"g">>, <<"a">> >>, Entity |-> << <<"e">> >>,
       Description |-> d] :
        d \in { << <<"a">> >>,
                << <<"a">>, <<"a">> >>,
                << <<"a">>, <<"b">> >>,
                << <<"a">>, <<"b">>, <<"x">> >> } }

NoLocals == [layout |-> "none"]

MysticInit ==
    /\ gtables \in MysticTables
    /\ gpc = "idle"
    /\ locals = NoLocals
    /\ product = NoItem

\* the values of a table
Drawable(table_name) ==
    {gtables[table_name][k] : k \in 1..Len(gtables[table_name])}

\* layout[1:].format(...) for the four layouts
MysticFormat(l) ==
    CASE l.layout = "1" ->
            l.group \o <<" ","o","f"," ","t","h","e"," ">> \o l.entity
      [] l.layout = "2" ->
            l.group \o <<" ","o","f"," ","t","h","e"," ">> \o l.descr[1]
            \o <<" ">> \o l.entity
      [] l.layout = "3" ->
            l.descr[1] \o <<" ">> \o l.group
            \o <<" ","o","f"," ","t","h","e"," ">> \o l.descr[2]
            \o <<" ">> \o l.entity
      [] OTHER -> l.descr[1] \o <<" ">> \o l.group

\* MysticStart with the while loop left out: the four-slot layout is formatted
\* with the two words as drawn
MysticStartNoLoop ==
    /\ gpc = "idle"
    /\ \E layout \in {"1", "2", "3", "4"},
          group \in Drawable("Group"), entity \in Drawable("Entity"),
          d0 \in Drawable("Description"), d1 \in Drawable("Description") :
          locals' = [layout |-> layout, group |-> group, entity |-> entity,
                     descr |-> <<d0, d1>>]
    /\ gpc' = "format"
    /\ UNCHANGED <<gtables, product>>

\* the draws of layout, group, entity and descr (lines 268-276) and the branch
\* on layout[0]: layout 3 goes to the while loop
MysticStart ==
    /\ gpc = "idle"
    /\ \E layout \in {"1", "2", "3", "4"},
          group \in Drawable("Group"), entity \in Drawable("Entity"),
          d0 \in Drawable("Description"), d1 \in Drawable("Description") :
          /\ locals' = [layout |-> layout, group |-> group, entity |-> entity,
                        descr |-> <<d0, d1>>]
          /\ gpc' = IF layout = "3" THEN "while" ELSE "format"
    /\ UNCHANGED <<gtables, product>>

\* one pass of `while descr[0] == descr[1]` (lines 283-284)
MysticRedraw ==
    /\ gpc = "while"
    /\ locals.descr[1] = locals.descr[2]
    /\ \E d1 \in Drawable("Description") :
          locals' = [locals EXCEPT !.descr[2] = d1]
    /\ UNCHANGED <<gtables, gpc, product>>

\* the loop condition is false
MysticLoopExit ==
    /\ gpc = "while"
    /\ locals.descr[1] # locals.descr[2]
    /\ gpc' = "format"
    /\ UNCHANGED <<gtables, locals, product>>

\* mystic_order = layout[1:].format(...); return Name(mystic_order)
MysticReturn ==
    /\ gpc = "format"
    /\ product' = MkName(MysticFormat(locals))
    /\ gpc' = "returned"
    /\ UNCHANGED <<gtables, locals>>

\* generate calls self._generator() again
ProduceAgain ==
    /\ gpc = "returned"
    /\ gpc' = "idle"
    /\ locals' = NoLocals
    /\ product' = NoItem
    /\ UNCHANGED gtables

----------------------------------------------------------------------------
(* Dwarves._generator *)

Son == <<"S","o","n">>
Daughter == <<"D","a","u","g","h","t","e","r">>

\* the tables of a Dwarves generator
DwarfTables ==
    ("Prefix" :> << <<"a">>, <<"b">> >>)
    @@ ("Masc Suffix" :> << <<"x">> >>)
    @@ ("Fem Suffix" :> << <<"y">> >>)
    @@ ("Adjective" :> << <<"o">> >>)
    @@ ("Noun" :> << <<"a">> >>)
    @@ ("Masc Honorific" :> << <<"A">> >>)
    @@ ("Fem Honorific" :> << <<"B">> >>)
    @@ ("Location Adjective" :> << <<"x">> >>)
    @@ ("Location" :> << <<"y">> >>)

DwarfInit ==
    /\ gtables = DwarfTables
    /\ gpc = "idle"
    /\ locals = NoLocals
    /\ product = NoItem

\* Dwarves._surname: the (name, gender) pairs it can return
Surnames ==
    { <<prefix \o suffix, Son>> :
        prefix \in Drawable("Prefix"), suffix \in Drawable("Masc Suffix") }
    \cup { <<prefix \o suffix, Daughter>> :
             prefix \in Drawable("Prefix"), suffix \in Drawable("Fem Suffix") }

\* Dwarves._epithet: "the {}" or "{}{}"
Epithets ==
    { <<"t","h","e"," ">> \o adjective : adjective \in Drawable("Adjective") }
    \cup { adjective \o noun :
             adjective \in Drawable("Adjective"), noun \in Drawable("Noun") }

\* Dwarves._title(gender): "{} of the {} {}"
Titles(gender) ==
    { honorific \o <<" ","o","f"," ","t","h","e"," ">> \o adjective
        \o <<" ">> \o location :
        honorific \in Drawable(IF gender = Son THEN "Masc Honorific"
                                              ELSE "Fem Honorific"),
        adjective \in Drawable("Location Adjective"),
        location \in Drawable("Location") }

\* the if statement a gate is: its name and whether randint(...) == 1
Gate(name, fired) == [gate |-> name, fired |-> fired]

\* the locals after a gate was evaluated; when it fired, text was appended to
\* dwarf_name as a segment of the given kind (gates and segments record what
\* the call has done so far)
Gated(l, name, fired, kind, appended) ==
    [l EXCEPT !.gates = Append(@, Gate(name, fired)),
              !.dwarf_name = IF fired THEN @ \o appended ELSE @,
              !.segments = IF fired THEN Append(@, kind) ELSE @]

\* dwarf_name, dwarf_gender = self._surname(); title_gender = dwarf_gender
DwarfStart ==
    /\ gpc = "idle"
    /\ \E sn \in Surnames :
          locals' = [layout |-> "dwarf", dwarf_name |-> sn[1],
                     dwarf_gender |-> sn[2], title_gender |-> sn[2],
                     parent_gender |-> <<>>, segments |-> <<"surname">>,
                     gates |-> <<>>]
    /\ gpc' = "epithet"
    /\ UNCHANGED <<gtables, product>>

\* if randint(1, 4) == 1: dwarf_name += " " + self._epithet()
GateEpithet ==
    /\ gpc = "epithet"
    /\ \E roll \in 1..4, e \in Epithets :
          locals' = Gated(locals, "epithet", roll = 1, "epithet", <<" ">> \o e)
    /\ gpc' = "second"
    /\ UNCHANGED <<gtables, product>>

\* GateSecond with the third-generation gate outside its if statement
GateSecondThenThird ==
    /\ gpc = "second"
    /\ \E roll \in 1..3, parent \in Surnames :
          /\ locals' = [Gated(locals, "second", roll = 1, "second generation",
                              <<",", " ">> \o locals.dwarf_gender
                              \o <<" ","o","f"," ">> \o parent[1])
                          EXCEPT !.title_gender = IF roll = 1 THEN parent[2]
                                                  ELSE @,
                                 !.parent_gender = IF roll = 1 THEN parent[2]
                                                   ELSE @]
          /\ gpc' = IF roll = 1 THEN "parent epithet" ELSE "third"
    /\ UNCHANGED <<gtables, product>>

\* if randint(1, 3) == 1: the parent's surname is drawn and appended
GateSecond ==
    /\ gpc = "second"
    /\ \E roll \in 1..3, parent \in Surnames :
          /\ locals' = [Gated(locals, "second", roll = 1, "second generation",
                              <<",", " ">> \o locals.dwarf_gender
                              \o <<" ","o","f"," ">> \o parent[1])
                          EXCEPT !.title_gender = IF roll = 1 THEN parent[2]
                                                  ELSE @,
                                 !.parent_gender = IF roll = 1 THEN parent[2]
                                                   ELSE @]
          /\ gpc' = IF roll = 1 THEN "parent epithet" ELSE "title"
    /\ UNCHANGED <<gtables, product>>

\* inside the second generation: if randint(1, 2) == 1: the parent's epithet
GateParentEpithet ==
    /\ gpc = "parent epithet"
    /\ \E roll \in 1..2, e \in Epithets :
          locals' = Gated(locals, "parent epithet", roll = 1, "epithet",
                          <<" ">> \o e)
    /\ gpc' = "third"
    /\ UNCHANGED <<gtables, product>>

\* inside the second generation: if randint(1, 4) == 1: the grandparent
GateThird ==
    /\ gpc = "third"
    /\ \E roll \in 1..4, grand_parent \in Surnames :
          /\ locals' = [Gated(locals, "third", roll = 1, "third generation",
                              <<",", " ">> \o locals.parent_gender
                              \o <<" ","o","f"," ">> \o grand_parent[1])
                          EXCEPT !.title_gender = IF roll = 1
                                                  THEN grand_parent[2] ELSE @]
          /\ gpc' = IF roll = 1 THEN "grandparent epithet" ELSE "title"
    /\ UNCHANGED <<gtables, product>>

\* inside the third generation: if randint(1, 2) == 1: the grandparent's epithet
GateGrandparentEpithet ==
    /\ gpc = "grandparent epithet"
    /\ \E roll \in 1..2, e \in Epithets :
          locals' = Gated(locals, "grandparent epithet", roll = 1, "epithet",
                          <<" ">> \o e)
    /\ gpc' = "title"
    /\ UNCHANGED <<gtables, product>>

\* if randint(1, 10) == 1: the title; return Name(dwarf_name)
GateTitle ==
    /\ gpc = "title"
    /\ \E roll \in 1..10, t \in Titles(locals.title_gender) :
          /\ locals' = Gated(locals, "title", roll = 1, "title",
                             <<",", " ">> \o t)
          /\ product' = MkName(locals'.dwarf_name)
    /\ gpc' = "returned"
    /\ UNCHANGED gtables

----------------------------------------------------------------------------
(* Plant._generator *)

Magical == <<"m","a","g","i","c","a","l">>
Medicinal == <<"m","e","d","i","c","i","n","a","l">>
Poisonous == <<"p","o","i","s","o","n","o","u","s">>
Edible == <<"e","d","i","b","l","e">>
Physical == <<"p","h","y","s","i","c","a","l">>

\* f"{prop} effect"
EffectTable(prop) == prop \o <<" ","e","f","f","e","c","t">>

KnownEffects == <<"K","n","o","w","n"," ","E","f","f","e","c","t","s">>

\* the keys of count_distribution
count_distribution == {0, 1, 2, 3, 4}

\* the tables of a Plant generator
PlantTables ==
    ("name 1" :> << <<"a">> >>)
    @@ ("name 2" :> << <<"b">> >>)
    @@ ("rarity" :> << <<"x">> >>)
    @@ ("habit" :> << <<"y">> >>)
    @@ ("property" :> <<Edible, Magical, Medicinal, Poisonous>>)
    @@ ("climate" :> << <<"x">> >>)
    @@ ("biome" :> << <<"y">> >>)
    @@ ("quirk" :> << <<"x">> >>)
    @@ ("complication" :> << <<"y">> >>)
    @@ ("effect type" :> <<EffectTable(Magical), EffectTable(Physical)>>)
    @@ ("plant material" :> << <<"a">> >>)
    @@ ("method" :> << <<"b">> >>)
    @@ ("magical effect" :> << <<"m">> >>)
    @@ ("medicinal effect" :> << <<"h">> >>)
    @@ ("poisonous effect" :> << <<"p">> >>)
    @@ ("physical effect" :> << <<"x">> >>)

\* the table names a production computes, as text
TableNames ==
    ("magical effect" :> EffectTable(Magical))
    @@ ("medicinal effect" :> EffectTable(Medicinal))
    @@ ("poisonous effect" :> EffectTable(Poisonous))
    @@ ("physical effect" :> EffectTable(Physical))

\* self._tables[table_name] for a table name held as text
Named(table_name) ==
    CHOOSE k \in DOMAIN TableNames : TableNames[k] = table_name

PlantInit ==
    /\ gtables = PlantTables
    /\ gpc = "idle"
    /\ locals = NoLocals
    /\ product = NoItem

\* Plant._get_required_effect(prop)
GetRequiredEffect(prop) ==
    IF prop \in {Magical, Medicinal, Poisonous} THEN EffectTable(prop) ELSE <<>>

\* Plant._get_effect(effect_type): the ("", text) pairs it can return for an
\* effect type that is given
Effects(effect_type) ==
    { << <<>>, StrValue(<<"I","t","s"," ">> \o plant_material
                        \o <<",", " ","w","h","e","n"," ">> \o method
                        \o <<",", " ","w","i","l","l"," ">> \o effect) >> :
        plant_material \in Drawable("plant material"),
        method \in Drawable("method"),
        effect \in Drawable(Named(effect_type)) }

\* Plant._get_effect(): the effect type is drawn from the "effect type" table
AnyEffects == UNION { Effects(effect_type) : effect_type \in Drawable("effect type") }

\* Creation._collect_attributes: attributes[attribute_label] = value
RECURSIVE DictSet(_, _, _)
DictSet(attributes, label, value) ==
    IF attributes = <<>> THEN <<Labelled(label, value)>>
    ELSE IF Head(attributes).label = label
    THEN <<Labelled(label, value)>> \o Tail(attributes)
    ELSE <<Head(attributes)>> \o DictSet(Tail(attributes), label, value)

\* Creation._collect_attributes(*attribute) on (label, value) pairs
RECURSIVE CollectAttributes(_, _, _)
CollectAttributes(attribute, attributes, unlabelled_attributes) ==
    IF attribute = <<>> THEN <<attributes, unlabelled_attributes>>
    ELSE IF Head(attribute)[1] = <<>>
    THEN CollectAttributes(Tail(attribute), attributes,
                           Append(unlabelled_attributes, Head(attribute)[2]))
    ELSE CollectAttributes(Tail(attribute),
                           DictSet(attributes, Head(attribute)[1],
                                   Head(attribute)[2]),
                           unlabelled_attributes)

\* Creation(name, *attribute)
CreationOf(name, attribute) ==
    LET collected == CollectAttributes(attribute, <<>>, <<>>)
    IN NewCreation(name, collected[1], collected[2])

\* the locals of Plant._generator once all_effects is initialised
PlantLocals(name, properties, prop, drawn, effect_count, count_adjustment, all_effects) ==
    [layout |-> "plant", name |-> name, properties |-> properties,
     prop |-> prop, drawn |-> drawn, effect_count |-> effect_count,
     count_adjustment |-> count_adjustment, all_effects |-> all_effects,
     passes |-> 0]

\* the (label, value) pairs of properties
Properties(rarity, habit, prop, climate, biome, quirk, complication) ==
    << << <<"r","a","r","i","t","y">>, StrValue(rarity) >>,
       << <<"h","a","b","i","t">>, StrValue(habit) >>,
       << <<"p","r","o","p","e","r","t","y">>, StrValue(prop) >>,
       << <<"c","l","i","m","a","t","e">>, StrValue(climate) >>,
       << <<"b","i","o","m","e">>, StrValue(biome) >>,
       << <<"q","u","i","r","k">>, StrValue(quirk) >>,
       << <<"c","o","m","p","l","i","c","a","t","i","o","n">>,
          StrValue(complication) >> >>

\* PlantStart with count_adjustment = 0 in both branches
PlantStartNoAdjustment ==
    /\ gpc = "idle"
    /\ \E name1 \in Drawable("name 1"), name2 \in Drawable("name 2"),
          rarity \in Drawable("rarity"), habit \in Drawable("habit"),
          prop \in Drawable("property"), climate \in Drawable("climate"),
          biome \in Drawable("biome"), quirk \in Drawable("quirk"),
          complication \in Drawable("complication"),
          effect_count \in count_distribution :
          LET name == name1 \o <<" ">> \o name2
              properties == Properties(rarity, habit, prop, climate, biome,
                                       quirk, complication)
              required_effect == GetRequiredEffect(prop)
          IN IF required_effect # <<>>
             THEN \E effect \in Effects(required_effect) :
                     locals' = PlantLocals(name, properties, prop, effect_count,
                                   IF effect_count = 0 THEN 1 ELSE effect_count,
                                   0, <<effect>>)
             ELSE locals' = PlantLocals(name, properties, prop, effect_count,
                                        effect_count, 0, <<>>)
    /\ gpc' = "for"
    /\ UNCHANGED <<gtables, product>>

\* the draws of name, properties and effect_count, and the required effect
\* (lines 15-42)
PlantStart ==
    /\ gpc = "idle"
    /\ \E name1 \in Drawable("name 1"), name2 \in Drawable("name 2"),
          rarity \in Drawable("rarity"), habit \in Drawable("habit"),
          prop \in Drawable("property"), climate \in Drawable("climate"),
          biome \in Drawable("biome"), quirk \in Drawable("quirk"),
          complication \in Drawable("complication"),
          effect_count \in count_distribution :
          LET name == name1 \o <<" ">> \o name2
              properties == Properties(rarity, habit, prop, climate, biome,
                                       quirk, complication)
              required_effect == GetRequiredEffect(prop)
          IN IF required_effect # <<>>
             THEN \E effect \in Effects(required_effect) :
                     locals' = PlantLocals(name, properties, prop, effect_count,
                                   IF effect_count = 0 THEN 1 ELSE effect_count,
                                   1, <<effect>>)
             ELSE locals' = PlantLocals(name, properties, prop, effect_count,
                                        effect_count, 0, <<>>)
    /\ gpc' = "for"
    /\ UNCHANGED <<gtables, product>>

\* one pass of `for _ in range(effect_count - count_adjustment)`
PlantEffect ==
    /\ gpc = "for"
    /\ locals.passes < locals.effect_count - locals.count_adjustment
    /\ \E effect \in AnyEffects :
          locals' = [locals EXCEPT !.all_effects = Append(@, effect),
                                   !.passes = @ + 1]
    /\ UNCHANGED <<gtables, gpc, product>>

\* the loop is over: "Known Effects" is appended when all_effects is not
\* empty, and Creation(name, *properties) is returned
PlantReturn ==
    /\ gpc = "for"
    /\ locals.passes >= locals.effect_count - locals.count_adjustment
    /\ product' =
          CreationOf(locals.name,
                     IF locals.all_effects # <<>>
                     THEN Append(locals.properties,
                                 <<KnownEffects,
                                   CreationOf(<<>>, locals.all_effects)>>)
                     ELSE locals.properties)
    /\ gpc' = "returned"
    /\ UNCHANGED <<gtables, locals>>

----------------------------------------------------------------------------
(* Specifications *)

\* no program running, while another part is followed
ProcQuiet ==
    /\ insts = <<>>
    /\ checks = 0
    /\ resolutions = 0
    /\ lateChecks = 0
    /\ handed = NoItem
    /\ library = generators_by_type
    /\ ppc = "start"

\* no _generator call followed, while another part is followed
ProdQuiet ==
    /\ gtables = <<>>
    /\ gpc = "idle"
    /\ locals = NoLocals
    /\ product = NoItem

\* no Creation held, while another part is followed
EntQuiet ==
    /\ ents = <<>>
    /\ made = <<>>
    /\ texts = <<>>
    /\ out = NoOutput

\* the table files at rest, while another part is followed
TabQuiet ==
    /\ files = [f \in FileSet |-> EmptyFile]
    /\ mtime = [f \in FileSet |-> 0]
    /\ marker = NoMarker
    /\ now = 0
    /\ tpc = "idle"
    /\ todo = <<>>
    /\ rewritten = {}
    /\ store = NoStore
    /\ force = FALSE
    /\ mtime0 = mtime
    /\ marker0 = marker
    /\ table_filenames = <<>>
    /\ settled = FALSE
    /\ pending = {}

\* the resolver at rest, while the generation loop is followed
ResQuiet ==
    /\ tables = PairedTables
    /\ special = <<>>
    /\ text = <<>>
    /\ stack = <<>>
    /\ rpc = "idle"
    /\ result = NoResult
    /\ draws = 0
    /\ funcs = 0
    /\ seen = {}

\* the generation loop at rest, while the resolver is followed
GenQuiet ==
    /\ pool = NamePool
    /\ items = <<>>
    /\ pc = "idle"
    /\ count = 0
    /\ keywords = NoKeywords
    /\ max_time = 0
    /\ elapsed = 0
    /\ tries = 0
    /\ unpolled = 0
    /\ creation = NoItem
    /\ expired = FALSE
    /\ late = 0
    /\ before = 0

Init == GenInit /\ ResQuiet /\ TabQuiet /\ ProcQuiet /\ EntQuiet /\ ProdQuiet

Next ==
    \/ \E c \in 0..MaxCount, kw \in KeywordArgs, mt \in (-1)..MaxTime :
          Generate(c, kw, mt) /\ UNCHANGED <<resVars, tabVars, procVars, entVars, prodVars>>
    \/ PlainAppend /\ UNCHANGED <<resVars, tabVars, procVars, entVars, prodVars>>
    \/ PlainReturn /\ UNCHANGED <<resVars, tabVars, procVars, entVars, prodVars>>
    \/ Attempt /\ UNCHANGED <<resVars, tabVars, procVars, entVars, prodVars>>
    \/ Deadline /\ UNCHANGED <<resVars, tabVars, procVars, entVars, prodVars>>
    \/ LoopExit /\ UNCHANGED <<resVars, tabVars, procVars, entVars, prodVars>>
    \/ Tick /\ UNCHANGED <<resVars, tabVars, procVars, entVars, prodVars>>
    \/ Return /\ UNCHANGED <<resVars, tabVars, procVars, entVars, prodVars>>

\* the generation loop
Spec == Init /\ [][Next]_vars

\* the generation loop when every production attempt and every deadline check
\* terminates, and the clock advances
FairSpec ==
    /\ Spec
    /\ WF_genVars(Attempt)
    /\ WF_genVars(Deadline)
    /\ WF_genVars(LoopExit)
    /\ WF_genVars(Tick)

ResolveInit == GenQuiet /\ ResInit /\ TabQuiet /\ ProcQuiet /\ EntQuiet /\ ProdQuiet

ResolveNext ==
    \/ Resolve /\ UNCHANGED <<genVars, tabVars, procVars, entVars, prodVars>>
    \/ SpecialCase /\ UNCHANGED <<genVars, tabVars, procVars, entVars, prodVars>>
    \/ Draw /\ UNCHANGED <<genVars, tabVars, procVars, entVars, prodVars>>
    \/ UnknownCategory /\ UNCHANGED <<genVars, tabVars, procVars, entVars, prodVars>>
    \/ ReturnEntry /\ UNCHANGED <<genVars, tabVars, procVars, entVars, prodVars>>
    \/ NextItem /\ UNCHANGED <<genVars, tabVars, procVars, entVars, prodVars>>

\* the header resolver
ResolveSpec == ResolveInit /\ [][ResolveNext]_vars

\* the header resolver when every step of a call that can be taken is taken:
\* the code is single-threaded and random.choice, the bound functions and the
\* string operations return
ResolveFairSpec ==
    /\ ResolveSpec
    /\ WF_resVars(SpecialCase)
    /\ WF_resVars(Draw)
    /\ WF_resVars(UnknownCategory)
    /\ WF_resVars(ReturnEntry)

LinkedStart == LinkedInit /\ TabQuiet /\ ProcQuiet /\ EntQuiet /\ ProdQuiet

LinkedNext ==
    \/ \E c \in 0..MaxCount, kw \in LinkedKeywordArgs :
          Generate(c, kw, MaxTime) /\ UNCHANGED <<resVars, tabVars, procVars, entVars, prodVars>>
    \/ Produce /\ UNCHANGED <<tabVars, procVars, entVars, prodVars>>
    \/ SpecialCase /\ UNCHANGED <<genVars, tabVars, procVars, entVars, prodVars>>
    \/ Draw /\ UNCHANGED <<genVars, tabVars, procVars, entVars, prodVars>>
    \/ UnknownCategory /\ UNCHANGED <<genVars, tabVars, procVars, entVars, prodVars>>
    \/ ReturnEntry /\ UNCHANGED <<genVars, tabVars, procVars, entVars, prodVars>>
    \/ LinkedPlainAppend /\ UNCHANGED <<tabVars, procVars, entVars, prodVars>>
    \/ LinkedAttempt /\ UNCHANGED <<tabVars, procVars, entVars, prodVars>>
    \/ Propagate /\ UNCHANGED <<tabVars, procVars, entVars, prodVars>>
    \/ PlainReturn /\ UNCHANGED <<resVars, tabVars, procVars, entVars, prodVars>>
    \/ Deadline /\ UNCHANGED <<resVars, tabVars, procVars, entVars, prodVars>>
    \/ LoopExit /\ UNCHANGED <<resVars, tabVars, procVars, entVars, prodVars>>
    \/ Tick /\ UNCHANGED <<resVars, tabVars, procVars, entVars, prodVars>>
    \/ Return /\ UNCHANGED <<resVars, tabVars, procVars, entVars, prodVars>>

\* generate on a generator that produces its items with the header resolver
LinkedSpec == LinkedStart /\ [][LinkedNext]_vars

TableInit == GenQuiet /\ ResQuiet /\ TabInit /\ ProcQuiet /\ EntQuiet /\ ProdQuiet

TableNext ==
    \/ \E fu \in BOOLEAN, filenames \in FilenameLists :
          Construct(fu, filenames) /\ UNCHANGED <<genVars, resVars, procVars, entVars, prodVars>>
    \/ UpdateFile /\ UNCHANGED <<genVars, resVars, procVars, entVars, prodVars>>
    \/ WriteMarker /\ UNCHANGED <<genVars, resVars, procVars, entVars, prodVars>>
    \/ LoadTables /\ UNCHANGED <<genVars, resVars, procVars, entVars, prodVars>>
    \/ Rerun /\ UNCHANGED <<genVars, resVars, procVars, entVars, prodVars>>
    \/ \E f \in FileSet, lines \in Edits :
          Modify(f, lines) /\ UNCHANGED <<genVars, resVars, procVars, entVars, prodVars>>
    \/ ClockTick /\ UNCHANGED <<genVars, resVars, procVars, entVars, prodVars>>

\* the table files over the runs of the program
TableSpec == TableInit /\ [][TableNext]_vars

ProcessInit == GenQuiet /\ ResQuiet /\ TabQuiet /\ ProcInit /\ EntQuiet /\ ProdQuiet

ProcessNext ==
    \/ \E c \in 0..MaxCount, given \in BOOLEAN, fu \in BOOLEAN :
          Main(c, given, fu) /\ UNCHANGED <<genVars, resVars, entVars, prodVars>>
    \/ StartProduction /\ UNCHANGED <<genVars, resVars, tabVars, entVars, prodVars>>
    \/ Resolution /\ UNCHANGED <<genVars, resVars, tabVars, entVars, prodVars>>
    \/ Invoke /\ UNCHANGED <<genVars, resVars, entVars, prodVars>>
    \/ InvokeUnregistered /\ UNCHANGED <<genVars, resVars, entVars, prodVars>>
    \/ ClockTick /\ UNCHANGED <<genVars, resVars, procVars, entVars, prodVars>>
    \/ Produced /\ UNCHANGED <<genVars, resVars, tabVars, entVars, prodVars>>
    \/ InvokeReturn /\ UNCHANGED <<genVars, resVars, tabVars, entVars, prodVars>>
    \/ Exit /\ UNCHANGED <<genVars, resVars, tabVars, entVars, prodVars>>

\* one run of the program
ProcessSpec == ProcessInit /\ [][ProcessNext]_vars

RenderInit == GenQuiet /\ ResQuiet /\ TabQuiet /\ ProcQuiet /\ EntInit /\ ProdQuiet

RenderNext ==
    \/ \E i \in 1..2 : StrOf(i) /\ UNCHANGED <<genVars, resVars, tabVars, procVars, prodVars>>
    \/ \E i \in 1..2 : LenOf(i) /\ UNCHANGED <<genVars, resVars, tabVars, procVars, prodVars>>
    \/ \E i \in 1..2, keyword \in {<<"y">>, <<" ", " ", " ", " ", "-">>} :
          ContainsOf(i, keyword)
          /\ UNCHANGED <<genVars, resVars, tabVars, procVars, prodVars>>
    \/ Show /\ UNCHANGED <<genVars, resVars, tabVars, procVars, prodVars>>

\* the renderings of the Creations a generator holds
RenderSpec == RenderInit /\ [][RenderNext]_vars

Others == <<genVars, resVars, tabVars, procVars, entVars>>

MysticStartState ==
    GenQuiet /\ ResQuiet /\ TabQuiet /\ ProcQuiet /\ EntQuiet /\ MysticInit

MysticNext ==
    \/ MysticStart /\ UNCHANGED Others
    \/ MysticRedraw /\ UNCHANGED Others
    \/ MysticLoopExit /\ UNCHANGED Others
    \/ MysticReturn /\ UNCHANGED Others
    \/ ProduceAgain /\ UNCHANGED Others

DwarfStartState ==
    GenQuiet /\ ResQuiet /\ TabQuiet /\ ProcQuiet /\ EntQuiet /\ DwarfInit

DwarfNext ==
    \/ DwarfStart /\ UNCHANGED Others
    \/ GateEpithet /\ UNCHANGED Others
    \/ GateSecond /\ UNCHANGED Others
    \/ GateParentEpithet /\ UNCHANGED Others
    \/ GateThird /\ UNCHANGED Others
    \/ GateGrandparentEpithet /\ UNCHANGED Others
    \/ GateTitle /\ UNCHANGED Others
    \/ ProduceAgain /\ UNCHANGED Others

\* the production method of Dwarves, called again and again
DwarfSpec == DwarfStartState /\ [][DwarfNext]_vars

PlantStartState ==
    GenQuiet /\ ResQuiet /\ TabQuiet /\ ProcQuiet /\ EntQuiet /\ PlantInit

PlantNext ==
    \/ PlantStart /\ UNCHANGED Others
    \/ PlantEffect /\ UNCHANGED Others
    \/ PlantReturn /\ UNCHANGED Others
    \/ ProduceAgain /\ UNCHANGED Others

\* the production method of Plant, called again and again
PlantSpec == PlantStartState /\ [][PlantNext]_vars

\* the production method of MysticOrders, called again and again
MysticSpec == MysticStartState /\ [][MysticNext]_vars

\* the same when the code goes on running and random.choice, drawing again and
\* again from a table that holds a different word, at some point draws one
MysticFairSpec ==
    /\ MysticSpec
    /\ WF_prodVars(MysticLoopExit)
    /\ WF_prodVars(MysticReturn)
    /\ WF_prodVars(MysticRedraw)
    /\ SF_prodVars(MysticRedraw /\ locals'.descr[2] # locals.descr[1])

----------------------------------------------------------------------------
(* The generation loop: properties *)

\* every keyword of kws passes `keyword in cr`
KeywordTest(cr, kws) == \A i \in 1..Len(kws) : Contains(cr, kws[i])

\* every keyword of kws, compared case-insensitively, is a substring of str(cr)
CaseInsensitiveMatch(cr, kws) ==
    \A i \in 1..Len(kws) : IsSubstring(LowerStr(kws[i]), LowerStr(Str(cr)))

\* some keyword of kws is, case-insensitively, the whole of str(cr)
EqualsAKeyword(cr, kws) ==
    \E i \in 1..Len(kws) : LowerStr(kws[i]) = LowerStr(Str(cr))

\* no item the generator can produce passes the keyword test
Impossible == keywords.given /\ \A c \in pool : ~KeywordTest(c, keywords.list)

\* C1: on a freshly constructed generator, generate without keywords calls the
\* production method exactly count times and returns exactly count items, for
\* every count >= 0 and every max_time.
C1_PlainExactCount ==
    (pc = "returned" /\ ~keywords.given /\ before = 0)
        => (tries = count /\ Len(items) = count)

C1_Witness ==
    /\ pc = "returned" /\ ~keywords.given /\ before = 0
    /\ count = MaxCount /\ max_time < 0 /\ Len(items) = MaxCount
    /\ items[1] = items[2]

\* C2 as stated: the returned sequence is at most count long after any sequence
\* of generate calls on the same instance.
C2_AtMostCountAnyCall == pc = "returned" => Len(items) <= count

\* C2 amended: the returned sequence is at most count long when the generator
\* held no items when generate was called; after earlier calls on the same
\* instance it is at most count plus the number of items already held.
C2_AtMostCountFromEmpty ==
    pc = "returned" =>
        /\ (before = 0 => Len(items) <= count)
        /\ Len(items) <= before + count

C2_Witness ==
    /\ pc = "returned" /\ before > 0 /\ keywords.given
    /\ Len(items) > count

\* C3: on the keyword path an item passes the keyword test exactly when every
\* keyword, compared case-insensitively, is a substring of its rendered text
\* (checked on the items whose rendered text is not itself a keyword, which the
\* loop is specified to reject separately).
C3_KeywordTestIsCaseInsensitive ==
    (pc = "poll" /\ keywords.given /\ ~EqualsAKeyword(creation, keywords.list))
        => (KeywordTest(creation, keywords.list)
              <=> CaseInsensitiveMatch(creation, keywords.list))

\* C4: a generate call with keywords present never returns two items with
\* identical rendered text, one of which it appended.
C4_NoDuplicateRenderedText ==
    (pc = "returned" /\ keywords.given) =>
        \A i, j \in 1..Len(items) :
            (i < j /\ j > before) => Str(items[i]) # Str(items[j])

\* C5: on the keyword path no kept item has rendered text exactly equal to one
\* of the keywords.
C5_NoItemEqualsKeyword ==
    keywords.given =>
        \A i \in (before + 1)..Len(items) :
            \A k \in 1..Len(keywords.list) : Str(items[i]) # keywords.list[k]

\* C6: on the keyword path the deadline is polled exactly once per attempt,
\* after it; the loop makes no attempt once count items are kept or once a poll
\* has seen elapsed > max_time; and on expiry generate returns the items kept
\* so far.
C6_DeadlinePolling ==
    /\ [](keywords.given =>
            /\ (pc = "head" => unpolled = 0)
            /\ (pc = "poll" => unpolled = 1)
            /\ (pc = "returned" =>
                   unpolled = 0 /\ (expired \/ Len(items) >= count))
            /\ (expired => pc = "returned" /\ elapsed > max_time))
    /\ [][(/\ keywords.given
           /\ pc \in {"head", "poll", "returned"}
           /\ (expired \/ (pc = "head" /\ Len(items) >= count)))
            => (unpolled' <= unpolled /\ items' = items)]_vars
    /\ [][(pc = "poll" /\ pc' = "returned")
            => (elapsed > max_time /\ items' = items)]_vars

C6_Witness ==
    /\ pc = "returned" /\ keywords.given /\ expired
    /\ before = 0 /\ Len(items) = 1 /\ count = MaxCount

\* C7 as stated, its result: generate with a keyword set no producible item
\* satisfies returns fewer than count items.
C7_ImpossibleReturnsFewer ==
    (pc = "returned" /\ Impossible) => Len(items) < count

\* C7 amended: generate with a keyword set no producible item satisfies
\* eventually returns, having kept nothing, so with fewer than count items
\* whenever count exceeds the number of items the generator already held
\* (count >= 1 on a fresh generator); and it starts at most one attempt after
\* the elapsed time has passed max_time.
C7_ImpossibleTerminates ==
    /\ (pc = "head" /\ Impossible) ~> (pc = "returned")
    /\ [](Impossible => late <= 1)
    /\ []((pc = "returned" /\ Impossible) =>
            /\ Len(items) = before
            /\ (count > before => Len(items) < count))

C7_Witness ==
    /\ pc = "returned" /\ Impossible /\ expired /\ late = 1
    /\ count = MaxCount /\ Len(items) = 0

\* C25: on the keyword path an item that passes the keyword test is rejected
\* as a duplicate only if its rendered text is the rendered text of an item
\* already kept.
C25_RejectedOnlyIfSameRenderedText ==
    [][(pc = "head" /\ pc' = "poll" /\ keywords.given
          /\ KeywordTest(creation', keywords.list) /\ items' = items) =>
            \E i \in 1..Len(items) : Str(items[i]) = Str(creation')]_vars

----------------------------------------------------------------------------
(* The header resolver: properties *)

\* t holds no delimiter
NoDelimiter(t) == \A i \in 1..Len(t) : t[i] # "*"

\* t holds a delimiter-bounded substring: two delimiters
HasReference(t) == \E i, j \in 1..Len(t) : i < j /\ t[i] = "*" /\ t[j] = "*"

\* every delimiter of t opens or closes a reference
Paired(t) == Cardinality({i \in 1..Len(t) : t[i] = "*"}) % 2 = 0

\* the entries of a category
Entries(c) == {tables[c][k] : k \in 1..Len(tables[c])}

\* the table entries have their delimiters paired and the special-case
\* functions return text without delimiters
WellFormed ==
    /\ \A c \in DOMAIN tables : \A e \in Entries(c) : Paired(e)
    /\ \A h \in DOMAIN special :
          \A r \in special[h] : r.kind = "text" => NoDelimiter(r.text)

\* text is one reference to a category that is no special case, and whose
\* entries hold no reference
SingleCategoryReference ==
    /\ Len(text) >= 2 /\ text[1] = "*" /\ text[Len(text)] = "*"
    /\ NoDelimiter(TrimAsterisks(text))
    /\ text \notin DOMAIN special
    /\ TrimAsterisks(text) \in DOMAIN tables
    /\ \A e \in Entries(TrimAsterisks(text)) : ~HasReference(e)

\* C8: resolve of a text with no header delimiter returns the text unchanged,
\* drawing from no table and invoking no special-case function.
C8_NoDelimiterUnchanged ==
    (rpc = "done" /\ NoDelimiter(text))
        => (result = TextResult(text) /\ draws = 0 /\ funcs = 0)

C8_Witness ==
    rpc = "done" /\ NoDelimiter(text) /\ text # <<>> /\ result = TextResult(text)

\* C9 as stated: whenever resolve returns a string, the string holds no header
\* reference, for every text, every table contents and every special-case
\* binding.
C9_ResultHasNoReference ==
    (rpc = "done" /\ result.kind = "text") => ~HasReference(result.text)

\* C9 amended: whenever resolve returns a string, the string holds no header
\* reference, provided every table entry holds an even number of delimiters
\* and every special-case function returns text without delimiters.
C9_WellFormedResultHasNoReference ==
    (rpc = "done" /\ result.kind = "text" /\ WellFormed)
        => ~HasReference(result.text)

C9_Witness ==
    /\ rpc = "done" /\ result.kind = "text" /\ WellFormed
    /\ HasReference(text) /\ draws >= 2 /\ ~HasReference(result.text)

\* C10: resolve of a text that is a single reference to a category whose
\* entries hold no references always returns one of the category's entries,
\* and every entry of the category can be the one drawn.
C10_ReturnsAnEntry ==
    SingleCategoryReference =>
        /\ rpc = "done" =>
              /\ result.kind = "text"
              /\ result.text \in Entries(TrimAsterisks(text))
        /\ (InLoop /\ Len(stack) = 1) =>
              \A e \in Entries(TrimAsterisks(text)) :
                  ENABLED (Draw /\ stack'[Len(stack')].entry = e)

C10_Witness ==
    /\ SingleCategoryReference
    /\ rpc = "done"
    /\ Cardinality(Entries(TrimAsterisks(text))) >= 2
    /\ \A e \in Entries(TrimAsterisks(text)) : TextResult(e) \in seen

\* text holds the same reference to a category, no special case, k >= 2 times
SameReference ==
    /\ Len(FindAll(text)) >= 2
    /\ \A i \in 1..Len(FindAll(text)) : FindAll(text)[i] = FindAll(text)[1]
    /\ FindAll(text)[1] \notin DOMAIN special
    /\ TrimAsterisks(FindAll(text)[1]) \in DOMAIN tables

\* what follows the i-th reference of text
After(i) == SubSeq(text, StarsFrom(text, 1)[2 * i] + 1, Len(text))

\* this step substitutes new_entry for the reference the outermost call is at,
\* in that reference's own position: what precedes the reference in entry and
\* what follows it in text are kept around new_entry
LandsInPlace(new_entry) ==
    LET f == stack[1]
        n == Len(f.entry) - Len(After(f.i)) - Len(f.headers[f.i])
    IN /\ n >= 0
       /\ stack'[1].entry = SubSeq(f.entry, 1, n) \o new_entry \o After(f.i)

\* the outermost call substitutes in this step
OuterSubstitution ==
    /\ rpc = "running" /\ rpc' = "running"
    /\ Len(stack) = 2 /\ Len(stack') = 1
    /\ stack'[1].i = stack[1].i + 1

\* at each occurrence every entry of the category can be drawn, whatever was
\* drawn for the occurrences before it
EveryEntryDrawable ==
    (SameReference /\ InLoop /\ Len(stack) = 1) =>
        \A e \in Entries(TrimAsterisks(Hdr)) :
            ENABLED (Draw /\ stack'[Len(stack')].entry = e)

C12_SpecialCaseOverridesTable ==
    /\ []((InLoop /\ Hdr \in DOMAIN special) =>
            (~ENABLED Draw /\ ~ENABLED UnknownCategory))
    /\ [][(InLoop /\ Hdr \in DOMAIN special) =>
            /\ funcs' = funcs + 1
            /\ draws' = draws
            /\ result'.kind # "KeyError"
            /\ \E r \in special[Hdr] :
                  \/ r.kind = "creation" /\ result' = r
                  \/ /\ r.kind = "text"
                     /\ stack'[Len(stack)].entry
                          = Replace(Top.entry, Hdr, r.text)]_vars

C12_Witness ==
    /\ rpc = "done"
    /\ text = <<"*","s","*">>
    /\ text \in DOMAIN special
    /\ TrimAsterisks(text) \in DOMAIN tables
    /\ result = TextResult(<<"y">>)
    /\ result.text \notin Entries(TrimAsterisks(text))
    /\ funcs = 1 /\ draws = 0

\* C13: when a special-case function yields a Creation, at any recursion
\* depth, the outermost call returns exactly that Creation, every call's text
\* is discarded, and until the next resolution no table is drawn from and no
\* special-case function is called.
C13_CreationReturnedAtOnce ==
    /\ [][(InLoop /\ Hdr \in DOMAIN special /\ result'.kind = "creation") =>
            /\ result' \in special[Hdr]
            /\ rpc' = "done"
            /\ stack' = <<>>
            /\ draws' = draws]_vars
    /\ [][(InLoop /\ Hdr \in DOMAIN special /\ result'.kind # "creation") =>
            /\ rpc' = "running"
            /\ Len(stack') = Len(stack)
            /\ \E r \in special[Hdr] : r.kind = "text"]_vars
    /\ [][rpc = "done" => (draws' = draws /\ funcs' = funcs
                             /\ result' = result /\ stack' = <<>>)]_vars
    /\ []((rpc = "done" /\ result.kind = "creation") =>
            /\ funcs >= 1
            /\ \E h \in DOMAIN special : result \in special[h]
            /\ (text = <<"*","s","*"," ","*","a","*">> => draws = 0)
            /\ (text = <<"*","d","*"," ","*","a","*">> => draws = 1))

C13_Witness ==
    /\ rpc = "done" /\ result.kind = "creation"
    /\ text = <<"*","d","*"," ","*","a","*">>
    /\ draws = 1 /\ funcs = 1 /\ stack = <<>>

----------------------------------------------------------------------------
(* generate on a LinkedGenerator: properties *)

\* the resolver is at a reference that is no special case and names no table
AtUnknownCategory ==
    InLoop /\ Hdr \notin DOMAIN special /\ TrimAsterisks(Hdr) \notin DOMAIN tables

\* C14: at a reference that is not bound as a special case and names a category
\* absent from the table store, at any depth, the only step is the failure with
\* KeyError; the error leaves every _substitute_headers call and generate
\* itself: no text is returned, the item under construction is not appended,
\* and generate does not return.
C14_UnknownCategoryPropagates ==
    /\ [](AtUnknownCategory =>
            /\ ENABLED UnknownCategory
            /\ ~ENABLED Draw /\ ~ENABLED SpecialCase /\ ~ENABLED ReturnEntry)
    /\ [][AtUnknownCategory =>
            (result' = Raised("KeyError") /\ stack' = <<>> /\ items' = items)]_resVars
    /\ []((rpc = "done" /\ result.kind = "KeyError") =>
            /\ ENABLED Propagate
            /\ ~ENABLED LinkedPlainAppend /\ ~ENABLED LinkedAttempt
            /\ ~ENABLED (PlainReturn /\ UNCHANGED resVars)
            /\ ~ENABLED (LoopExit /\ UNCHANGED resVars))
    /\ [][(rpc = "done" /\ result.kind = "KeyError") =>
            (pc' = "raised" /\ items' = items /\ result' = result)]_<<pc, items, resVars>>
    /\ [][pc = "raised" => (pc' = "raised" /\ items' = items)]_vars
    /\ [](pc = "raised" => (result.kind \in Exceptions /\ creation # MkName(text)))

C14_Witness ==
    /\ pc = "raised" /\ result.kind = "KeyError"
    /\ text = <<"*","d","*"," ","*","a","*">> /\ tables = UnpairedTables
    /\ Len(items) = 1 /\ count = MaxCount

\* the categories a _substitute_headers call on entry draws from
DrawnFrom(entry) ==
    {TrimAsterisks(FindAll(entry)[k]) :
        k \in {j \in 1..Len(FindAll(entry)) :
                 FindAll(entry)[j] \notin DOMAIN special}}
    \cap DOMAIN tables

\* the categories the entries of category c refer to
RefersTo(c) == UNION {DrawnFrom(tables[c][k]) : k \in 1..Len(tables[c])}

\* the categories reachable from the categories S in at most n references
RECURSIVE ReachableFrom(_, _)
ReachableFrom(S, n) ==
    IF n = 0 THEN S
    ELSE ReachableFrom(S \cup UNION {RefersTo(c) : c \in S}, n - 1)

Closure(S) == ReachableFrom(S, Cardinality(DOMAIN tables))

\* the category reference graph reachable from text has no cycle
AcyclicFromText ==
    \A c \in Closure(DrawnFrom(text)) : c \notin Closure(RefersTo(c))

\* every entry of category c leads back to c
NoExit(c) ==
    \A k \in 1..Len(tables[c]) : c \in Closure(DrawnFrom(tables[c][k]))

\* a category reachable from text is a cycle with no exit
CycleWithNoExitReachable ==
    \E c \in Closure(DrawnFrom(text)) : NoExit(c)

\* every entry of category c has a reference to c as its first reference, and
\* that reference is resolved by a draw on c
SelfFirst(c) ==
    /\ c \in DOMAIN tables
    /\ <<"*">> \o c \o <<"*">> \notin DOMAIN special
    /\ \A k \in 1..Len(tables[c]) :
          /\ FindAll(tables[c][k]) # <<>>
          /\ FindAll(tables[c][k])[1] = <<"*">> \o c \o <<"*">>

\* some active call is at a reference to such a category
Trapped ==
    /\ rpc = "running"
    /\ \E k \in 1..Len(stack) :
          /\ stack[k].i <= Len(stack[k].headers)
          /\ SelfFirst(TrimAsterisks(stack[k].headers[stack[k].i]))

Value == {"text", "creation"}

----------------------------------------------------------------------------
(* The table files: properties *)

\* the categories a file defines, one for each header line that is given
\* entries (and None for entries given before any header), in file order
RECURSIVE DefinedFrom(_, _, _, _)
DefinedFrom(lines, i, current_list, defined) ==
    IF i > Len(lines) THEN <<>>
    ELSE LET line == Strip(lines[i])
         IN IF line = <<>>
            THEN DefinedFrom(lines, i + 1, current_list, defined)
            ELSE IF line[1] = "#"
            THEN DefinedFrom(lines, i + 1, Strip(Tail(line)), FALSE)
            ELSE (IF defined THEN <<>> ELSE <<current_list>>)
                 \o DefinedFrom(lines, i + 1, current_list, TRUE)

\* the definitions in the table files of the generator, in loading order
RECURSIVE DefinitionsIn(_)
DefinitionsIn(filenames) ==
    IF filenames = <<>> THEN <<>>
    ELSE DefinedFrom(files[Head(filenames)], 1, NoneKey, FALSE)
         \o DefinitionsIn(Tail(filenames))

Definitions == DefinitionsIn(table_filenames)

\* some category is defined more than once in the table files
DefinedTwice ==
    \E i, j \in 1..Len(Definitions) : i < j /\ Definitions[i] = Definitions[j]

\* C15: loading the sources fails whenever a category is defined more than once
\* among the loaded definitions: a construction that loaded its tables found
\* every category defined once.
C15_DuplicateCategoryFails == tpc = "constructed" => ~DefinedTwice

\* C16: canonicalizing a source twice in a row leaves it after the second pass
\* as it was after the first.
C16_CanonicalizationIdempotent ==
    tpc \in {"updating", "loading", "constructed", "duplicate"} =>
        \A f \in rewritten : Updated(files[f]) = files[f]

\* C17: after a source is canonicalized, loading it yields, for every category
\* that had entries before, the same category with the sorted duplicate-free
\* lowercased original entries.
C17_CanonicalizedLoadsOriginalEntries ==
    [][\A f \in FileSet :
          (tpc = "updating" /\ f \in rewritten' \ rewritten) =>
              \A k \in Keys(TextFileToDict(files[f])) :
                  /\ k \in Keys(TextFileToDict(files'[f]))
                  /\ Get(TextFileToDict(files'[f]), k)
                       = Canonical(Get(TextFileToDict(files[f]), k))]_vars

Range(seq) == {seq[i] : i \in 1..Len(seq)}

\* the construction has left _update_tables without an exception
UpdatePhaseDone == tpc \in {"loading", "constructed", "duplicate"}

\* the files that were strictly newer than the marker when the construction
\* started; all of them when there was no marker
StaleAtStart ==
    IF marker0.exists
    THEN {f \in Range(table_filenames) : mtime0[f] > marker0.mtime}
    ELSE Range(table_filenames)

C28_ModifiedSourceCanonicalizedAtNextUse ==
    UpdatePhaseDone => Range(table_filenames) \cap pending = {}

\* the header lines and the content lines of a file, by line number
HeaderLines(lines) ==
    {i \in 1..Len(lines) : Strip(lines[i]) # <<>> /\ Strip(lines[i])[1] = "#"}

ContentLines(lines) ==
    {i \in 1..Len(lines) : Strip(lines[i]) # <<>> /\ Strip(lines[i])[1] # "#"}

\* the content lines that follow header line h before the next header line
ContentUnder(lines, h) ==
    {j \in ContentLines(lines) :
        h < j /\ \A h2 \in HeaderLines(lines) : ~(h < h2 /\ h2 < j)}

\* the separator-split, whitespace-trimmed parts of a line
PartsOf(line) ==
    [k \in 1..Len(SplitOn(Strip(line), demar)) |->
        Strip(SplitOn(Strip(line), demar)[k])]

\* C23: in the tables a construction has loaded, each header line of a table
\* file with content lines under it is a category whose entries are the
\* separator-split, trimmed parts of the last content line that follows it
\* before the next header line (blank lines skipped, a later content line
\* replacing an earlier one), and every content line comes after a header
\* line, so that the categories are exactly the ones the header lines name.
C23_ParseAttributesLinesToHeaders ==
    tpc = "constructed" =>
        \A i \in 1..Len(table_filenames) :
            LET lines == files[table_filenames[i]]
            IN /\ \A h \in HeaderLines(lines) :
                     ContentUnder(lines, h) # {} =>
                        LET category == Strip(Tail(Strip(lines[h])))
                            last == CHOOSE j \in ContentUnder(lines, h) :
                                       \A j2 \in ContentUnder(lines, h) : j2 <= j
                        IN /\ category \in Keys(store.tables)
                           /\ Get(store.tables, category) = PartsOf(lines[last])
               /\ \A j \in ContentLines(lines) :
                     \E h \in HeaderLines(lines) : h < j
               /\ NoneKey \notin Keys(store.tables)

----------------------------------------------------------------------------
(* A run of the program: properties *)

\* C19: the canonicalize-if-stale step (_update_tables) runs at most once in a
\* run of the program, and never after a resolution has been made.
C19_StaleCheckOnceBeforeResolution == checks <= 1 /\ lateChecks = 0

\* C20: _get_other_generator_output constructs a generator with forced update
\* off and no items, asks it for one item with no keywords and printing
\* suppressed, and returns that generator's single item; the items of the
\* generators below the running one never change, so the caller has the items
\* it had when it made the call.
C20_InvocationIsolated ==
    /\ [][(Len(insts) >= 1 /\ Len(insts') = Len(insts) + 1) =>
            /\ insts'[Len(insts')] = Instance(1, FALSE, FALSE, TRUE)
            /\ SubSeq(insts', 1, Len(insts)) = insts]_vars
    /\ [][(Len(insts) > 1 /\ Len(insts') = Len(insts) - 1) =>
            /\ Running.items # <<>>
            /\ handed' = Running.items[1]
            /\ Running.made = 1
            /\ insts' = SubSeq(insts, 1, Len(insts) - 1)]_vars
    /\ [][\A i \in 1..(Len(insts) - 1) :
            i <= Len(insts') => insts'[i].items = insts[i].items]_vars
    /\ [](\A i \in 2..Len(insts) :
            /\ insts[i].count = 1 /\ ~insts[i].given /\ ~insts[i].force
            /\ insts[i].suppress
            /\ Len(insts[i].items) <= 1)

C20_Witness ==
    /\ ppc = "running" /\ Len(insts) = 1
    /\ handed # NoItem
    /\ Running.phase = "producing"
    /\ Running.count = MaxCount /\ Running.given
    /\ Len(Running.items) = 1 /\ Running.items[1] # handed

\* C21: _get_other_generator_output called with a (type, name) pair that the
\* library does not hold fails with KeyError before any generator is
\* constructed: in the failing step the library is unchanged, no generator
\* instance is added, _update_tables is not run, no table file is rewritten
\* and the marker file is not written; nothing is written afterwards either.
C21_UnregisteredFailsBeforeConstruction ==
    /\ [][(ppc = "running" /\ ppc' = "raised") =>
            /\ library' = library
            /\ insts' = insts
            /\ checks' = checks
            /\ files' = files /\ mtime' = mtime /\ rewritten' = rewritten
            /\ marker' = marker]_vars
    /\ [][ppc = "raised" =>
            UNCHANGED <<procVars, files, mtime, rewritten, marker>>]_vars
    /\ [](library = generators_by_type)

C21_Witness ==
    /\ ppc = "raised"
    /\ Len(insts) = 1 /\ checks = 1
    /\ marker.exists /\ marker.mtime < now

----------------------------------------------------------------------------
(* Creations inside Creations: properties *)

\* the Creations among the attribute values of self
NestedIn(self) ==
    {self.attributes[k].value : k \in
        {j \in 1..Len(self.attributes) :
            self.attributes[j].value.kind = "Creation"}}
    \cup {self.unlabelled_attributes[k] : k \in
        {j \in 1..Len(self.unlabelled_attributes) :
            self.unlabelled_attributes[j].kind = "Creation"}}

\* every Creation inside self has the counter of its container plus one
RECURSIVE OneDeeper(_)
OneDeeper(self) ==
    \A c \in NestedIn(self) : c.nested = self.nested + 1 /\ OneDeeper(c)

\* self with every counter inside it put back to the constructor's 0
RECURSIVE Unnested(_)
Unnested(v) ==
    IF v.kind # "Creation" THEN v
    ELSE [v EXCEPT
            !.nested = 0,
            !.attributes = [k \in 1..Len(v.attributes) |->
                               [v.attributes[k] EXCEPT
                                   !.value = Unnested(v.attributes[k].value)]],
            !.unlabelled_attributes =
                [k \in 1..Len(v.unlabelled_attributes) |->
                    Unnested(v.unlabelled_attributes[k])]]

\* C22: after any number of renderings (str, len, keyword containment, show)
\* of a Creation held by a generator, every Creation nested in it has its
\* container's display-depth counter plus one, every rendering returned the
\* same text, and its name and attributes are as constructed.
C22_RenderingKeepsDepthAndText ==
    \A i \in DOMAIN ents :
        texts[i] # <<>> =>
            /\ ents[i].nested = 0
            /\ OneDeeper(ents[i])
            /\ \A k \in DOMAIN texts[i] : texts[i][k] = texts[i][1]
            /\ Unnested(ents[i]) = made[i]

----------------------------------------------------------------------------
(* The production methods: properties *)

\* C26: whenever MysticOrders._generator returns a name of the four-slot
\* layout, the name is that layout filled with the two description words, the
\* group and the entity, and the two description words differ, whatever the
\* Description table holds.
C26_FourSlotWordsDiffer ==
    (gpc = "returned" /\ locals.layout = "3") =>
        /\ product.name = locals.descr[1] \o <<" ">> \o locals.group
                          \o <<" ","o","f"," ","t","h","e"," ">>
                          \o locals.descr[2] \o <<" ">> \o locals.entity
        /\ locals.descr[1] # locals.descr[2]

C26_Witness ==
    /\ gpc = "returned" /\ locals.layout = "3"
    /\ Len(gtables.Description) = 3
    /\ locals.descr = << <<"b">>, <<"x">> >>

\* the fixed order of the gates of Dwarves._generator
GateOrder ==
    <<"epithet", "second", "parent epithet", "third", "grandparent epithet",
      "title">>

GateRank(name) == CHOOSE k \in 1..Len(GateOrder) : GateOrder[k] = name

\* gate name was evaluated, and whether it fired
Evaluated(name) == \E k \in 1..Len(locals.gates) : locals.gates[k].gate = name

Fired(name) ==
    \E k \in 1..Len(locals.gates) :
        locals.gates[k].gate = name /\ locals.gates[k].fired

\* the segments the gates that fired have appended, in the order of the gates
RECURSIVE SegmentsOf(_)
SegmentsOf(gates) ==
    IF gates = <<>> THEN <<>>
    ELSE (IF ~Head(gates).fired THEN <<>>
          ELSE IF Head(gates).gate = "second" THEN <<"second generation">>
          ELSE IF Head(gates).gate = "third" THEN <<"third generation">>
          ELSE IF Head(gates).gate = "title" THEN <<"title">>
          ELSE <<"epithet">>)
         \o SegmentsOf(Tail(gates))

\* C27: Dwarves._generator evaluates its gates in the fixed order own epithet,
\* second generation, third generation, title (the epithets of the parent and
\* of the grandparent after their generation); the own-epithet and title gates
\* are always evaluated and can each fire or not whatever the other gates did;
\* the third generation is evaluated, and so appears, only when the second
\* fired; and the name holds the surname and then the segments of the gates
\* that fired: epithets, second generation, third generation, title.
C27_GatesInFixedOrder ==
    /\ gpc # "idle" =>
          /\ \A i, j \in 1..Len(locals.gates) :
                i < j => GateRank(locals.gates[i].gate)
                           < GateRank(locals.gates[j].gate)
          /\ locals.segments = <<"surname">> \o SegmentsOf(locals.gates)
          /\ Evaluated("third") => Fired("second")
          /\ Evaluated("parent epithet") => Fired("second")
          /\ Evaluated("grandparent epithet") => Fired("third")
    /\ gpc = "returned" =>
          /\ Evaluated("epithet") /\ Evaluated("second") /\ Evaluated("title")
          /\ Evaluated("third") <=> Fired("second")
          /\ Evaluated("parent epithet") <=> Fired("second")
          /\ Evaluated("grandparent epithet") <=> Fired("third")
          /\ product = MkName(locals.dwarf_name)
    /\ gpc = "epithet" =>
          /\ ENABLED (GateEpithet /\ Fired("epithet")')
          /\ ENABLED (GateEpithet /\ ~Fired("epithet")')
    /\ gpc = "second" =>
          /\ ENABLED (GateSecond /\ Fired("second")')
          /\ ENABLED (GateSecond /\ ~Fired("second")')
    /\ gpc = "title" =>
          /\ ENABLED (GateTitle /\ Fired("title")')
          /\ ENABLED (GateTitle /\ ~Fired("title")')

C27_Witness ==
    /\ gpc = "returned"
    /\ locals.segments = <<"surname", "second generation", "third generation",
                           "title">>
    /\ locals.dwarf_gender = Son /\ locals.title_gender = Daughter

\* the Creations under the label "Known Effects" of the produced plant
KnownEffectsOf(plant) ==
    {plant.attributes[k].value : k \in
        {j \in 1..Len(plant.attributes) : plant.attributes[j].label = KnownEffects}}

\* the known effects of the produced plant, in order
EffectsOf(plant) ==
    IF KnownEffectsOf(plant) = {} THEN <<>>
    ELSE (CHOOSE c \in KnownEffectsOf(plant) : TRUE).unlabelled_attributes

\* C30: with d the effect count Plant._generator drew from {0,1,2,3,4}, a
\* plant whose property is magical, medicinal or poisonous has exactly
\* max(d,1) known effects and the first is drawn from the "<property> effect"
\* table; any other plant has exactly d; the "Known Effects" attribute is
\* there exactly when that number is above zero; and the number is at most 4.
C30_KnownEffectsCount ==
    gpc = "returned" /\ locals.layout = "plant" =>
        LET d == locals.drawn
            expected == IF locals.prop \in {Magical, Medicinal, Poisonous}
                        THEN (IF d >= 1 THEN d ELSE 1) ELSE d
        IN /\ d \in 0..4
           /\ Len(EffectsOf(product)) = expected
           /\ locals.prop \in {Magical, Medicinal, Poisonous} =>
                 \E effect \in Effects(EffectTable(locals.prop)) :
                     EffectsOf(product)[1] = effect[2]
           /\ (KnownEffectsOf(product) # {}) <=> expected > 0
           /\ Cardinality(KnownEffectsOf(product)) <= 1
           /\ Len(EffectsOf(product)) <= 4

C30_Witness ==
    /\ gpc = "returned" /\ locals.layout = "plant"
    /\ locals.prop = Poisonous
    /\ locals.drawn = 0
    /\ Len(EffectsOf(product)) = 1

\* C29: the redraw-until-different loop of a production method terminates for
\* every non-empty table, a Description table with one distinct entry
\* included, so that a production attempt that has started returns.
C29_ExclusionLoopTerminates ==
    (gpc \notin {"idle", "returned"}) ~> (gpc = "returned")

============================================================================
